---- MODULE Spec2Model ----
(***************************************************************************)
(* Kestrel ray tracer: the scanline-parallel render driver, the PCG32      *)
(* generator that feeds it, the closest-hit scan of Scene / PlyMesh and    *)
(* the recursive radiance estimator ray_color.                             *)
(*                                                                         *)
(* Unsigned machine words are little-endian sequences of bytes (uint64_t:  *)
(* 8 bytes, uint32_t: 4 bytes) so that every intermediate value of the     *)
(* 64-bit arithmetic stays far below the 32-bit range of the checker.      *)
(***************************************************************************)
EXTENDS Integers, Sequences, FiniteSets, TLC

\* ------------------------------------------------------------------------
\* Bounds of the model
\* ------------------------------------------------------------------------
MaxWidth == 4
MaxThreads == 2

\* ------------------------------------------------------------------------
\* Word arithmetic
\* ------------------------------------------------------------------------
Zero64 == <<0, 0, 0, 0, 0, 0, 0, 0>>

\* The element of a singleton.  The operators below bind their operands
\* through singleton sets, so that every word is computed once however
\* often its bytes are read.
Val(S) == CHOOSE r \in S : TRUE

RECURSIVE AddBytes(_, _, _, _)
\* a + b over the bytes i..Len(a), carry c coming in; the carry out of the
\* top byte is dropped (arithmetic modulo 2^(8*Len(a))).
AddBytes(a, b, i, c) ==
  IF i > Len(a) THEN <<>>
  ELSE <<(a[i] + b[i] + c) % 256>>
         \o AddBytes(a, b, i + 1, (a[i] + b[i] + c) \div 256)

\* a + b modulo 2^64
Add64(a, b) ==
  Val({LET s1 == x[1] + y[1]
           s2 == x[2] + y[2] + (s1 \div 256)
           s3 == x[3] + y[3] + (s2 \div 256)
           s4 == x[4] + y[4] + (s3 \div 256)
           s5 == x[5] + y[5] + (s4 \div 256)
           s6 == x[6] + y[6] + (s5 \div 256)
           s7 == x[7] + y[7] + (s6 \div 256)
           s8 == x[8] + y[8] + (s7 \div 256)
       IN  <<s1 % 256, s2 % 256, s3 % 256, s4 % 256, s5 % 256, s6 % 256,
             s7 % 256, s8 % 256>> : x \in {a}, y \in {b}})

\* low 64 bits of a * b: the eight columns of the schoolbook product, each
\* with the carry of the column below it
Mul64(a, b) ==
  Val({LET c1 == x[1] * y[1]
           c2 == x[1] * y[2] + x[2] * y[1] + (c1 \div 256)
           c3 == x[1] * y[3] + x[2] * y[2] + x[3] * y[1] + (c2 \div 256)
           c4 == x[1] * y[4] + x[2] * y[3] + x[3] * y[2] + x[4] * y[1]
                 + (c3 \div 256)
           c5 == x[1] * y[5] + x[2] * y[4] + x[3] * y[3] + x[4] * y[2]
                 + x[5] * y[1] + (c4 \div 256)
           c6 == x[1] * y[6] + x[2] * y[5] + x[3] * y[4] + x[4] * y[3]
                 + x[5] * y[2] + x[6] * y[1] + (c5 \div 256)
           c7 == x[1] * y[7] + x[2] * y[6] + x[3] * y[5] + x[4] * y[4]
                 + x[5] * y[3] + x[6] * y[2] + x[7] * y[1] + (c6 \div 256)
           c8 == x[1] * y[8] + x[2] * y[7] + x[3] * y[6] + x[4] * y[5]
                 + x[5] * y[4] + x[6] * y[3] + x[7] * y[2] + x[8] * y[1]
                 + (c7 \div 256)
       IN  <<c1 % 256, c2 % 256, c3 % 256, c4 % 256, c5 % 256, c6 % 256,
             c7 % 256, c8 % 256>> : x \in {a}, y \in {b}})

\* bit i (0 = least significant) of a byte sequence
Bit(a, i) ==
  IF i >= 8 * Len(a) THEN 0 ELSE (a[(i \div 8) + 1] \div (2 ^ (i % 8))) % 2

Xor(x, y) == (x + y) % 2

\* zero extension of a uint32_t to a uint64_t
Widen(w) == w \o <<0, 0, 0, 0>>

\* uint32_t + int, computed in unsigned arithmetic (modulo 2^32)
Add32Int(w, n) ==
  Val({AddBytes(x, <<n % 256, (n \div 256) % 256, 0, 0>>, 1, 0) : x \in {w}})

\* ------------------------------------------------------------------------
\* PCG32 (include/pcg32.h)
\* ------------------------------------------------------------------------
PCG_MULT == <<45, 127, 149, 76, 45, 244, 81, 88>>     \* 6364136223846793005
DEFAULT_SEED == <<155, 234, 143, 116, 230, 73, 60, 133>>   \* 0x853c49e6748fea9b
DEFAULT_STREAM == <<167, 192, 179, 123, 191, 189, 2, 10>>  \* 0xa02bdbf7bb3c0a7

\* (stream << 1u) | 1u
RECURSIVE Shl1(_, _, _)
Shl1(a, i, c) ==
  IF i > Len(a) THEN <<>>
  ELSE <<(2 * a[i] + c) % 256>> \o Shl1(a, i + 1, a[i] \div 128)

StreamInc_NoLowBit(stream) == Shl1(stream, 1, 0)

StreamInc(stream) ==
  Val({[x EXCEPT ![1] = @ + (1 - (@ % 2))] : x \in {Shl1(stream, 1, 0)}})

\* state = oldstate * 6364136223846793005ULL + inc
Advance(g) ==
  Val({[x EXCEPT !.state = Add64(Mul64(@, PCG_MULT), x.inc)] : x \in {g}})

\* bit i of the value returned by next(): xorshifted rotated right by rot,
\* xorshifted = uint32_t(((oldstate >> 18u) ^ oldstate) >> 27u)
OutBit(o, rot, i) ==
  Xor(Bit(o, ((i + rot) % 32) + 27 + 18), Bit(o, ((i + rot) % 32) + 27))

OutByte(o, rot, k) ==
  OutBit(o, rot, 8 * k) + 2 * OutBit(o, rot, 8 * k + 1)
  + 4 * OutBit(o, rot, 8 * k + 2) + 8 * OutBit(o, rot, 8 * k + 3)
  + 16 * OutBit(o, rot, 8 * k + 4) + 32 * OutBit(o, rot, 8 * k + 5)
  + 64 * OutBit(o, rot, 8 * k + 6) + 128 * OutBit(o, rot, 8 * k + 7)

\* rot = uint32_t(oldstate >> 59u)
Rot(o) == o[8] \div 8

\* the 32-bit output computed from the pre-advance state
Output(oldstate) ==
  Val({<<OutByte(o, Rot(o), 0), OutByte(o, Rot(o), 1), OutByte(o, Rot(o), 2),
         OutByte(o, Rot(o), 3)>> : o \in {oldstate}})

\* the body of PCG32::PCG32(seed, stream), run on an object whose state
\* member holds state0 after the member initialisers
Construct(state0, seed, stream) ==
  LET g0 == [state |-> state0, inc |-> StreamInc(stream)]
      g1 == Advance(g0)
  IN  Advance([g1 EXCEPT !.state = Add64(@, seed)])

\* PCG32::PCG32(seed, stream)
PCG32(seed, stream) == Construct(Zero64, seed, stream)

\* static_cast<float>(w): round to nearest, ties to even, to a 24-bit
\* significand.  The result is the rounded integer as 5 bytes (it can be
\* 2^32 itself).
BitLen(b) ==
  IF b >= 128 THEN 8 ELSE IF b >= 64 THEN 7 ELSE IF b >= 32 THEN 6
  ELSE IF b >= 16 THEN 5 ELSE IF b >= 8 THEN 4 ELSE IF b >= 4 THEN 3
  ELSE IF b >= 2 THEN 2 ELSE IF b >= 1 THEN 1 ELSE 0

ToFloat(w) ==
  LET k == BitLen(w[4])
      q == 2 ^ k
      rem == w[1] % q
      kept == <<w[1] - rem, w[2], w[3], w[4], 0>>
      odd == IF k = 8 THEN w[2] % 2 = 1 ELSE (w[1] \div q) % 2 = 1
      up == 2 * rem > q \/ (2 * rem = q /\ odd)
  IN  IF up THEN AddBytes(kept, <<q % 256, q \div 256, 0, 0, 0>>, 1, 0)
      ELSE kept

\* PCG32::next(): the value returned and the generator after the call
Next32(g) == [rng |-> Advance(g), val |-> Output(g.state)]

\* PCG32::next_float(): static_cast<float>(next()) / 2^32, kept as the
\* numerator over 2^32 (the division by a power of two is exact)
NextFloat(g) == [rng |-> Advance(g), val |-> ToFloat(Output(g.state))]

\* ------------------------------------------------------------------------
\* Render driver (src/kestrel.cpp, main)
\* ------------------------------------------------------------------------
samples_per_pixel == 10

\* static_cast<int>(image_width / aspect_ratio), aspect_ratio = 16.0f / 9.0f
HeightOf(w) == (9 * w) \div 16

PixelIndex_Transposed(j, i, w) == i * w + j

\* pixels[j * image_width + i]
PixelIndex(j, i, w) == j * w + i

\* next_row.fetch_add(1): the value stored back
FetchAdd(n) == n + 1

RowValid_OffByOne(j, h) == j <= h

\* if (j >= image_height) break;
RowValid(j, h) == j < h

RECURSIVE Samples(_, _)
\* the jitters drawn by the loop over s from a generator g: two next_float
\* calls per sample (u, then v)
Samples(g, s) ==
  IF s = 0 THEN <<>>
  ELSE LET u == NextFloat(g)
           v == NextFloat(u.rng)
       IN  <<u.val, v.val>> \o Samples(v.rng, s - 1)

RECURSIVE AfterSamples(_, _)
\* the generator after the loop over s
AfterSamples(g, s) ==
  IF s = 0 THEN g ELSE AfterSamples(Advance(Advance(g)), s - 1)

\* A pixel is recorded as the generator its samples were drawn from: the
\* colour stored is a deterministic function of the jitters (ray_color and
\* Camera::get_ray read immutable data only), and the jitters are
\* Samples(generator, samples_per_pixel).
Jitters(px) == Samples(px, samples_per_pixel)

VARIABLES
  image_width,    \* main: image_width
  image_height,   \* main: image_height
  num_threads,    \* main: num_threads
  rng,            \* main: PCG32 rng, captured by reference by every worker
  next_row,       \* main: std::atomic<int> next_row
  pixels,         \* main: std::vector<Color> pixels
  mainpc,         \* position of main: "launch", "join", "write", "done"
  launched,       \* main: t of the launch loop = threads.size()
  joined,         \* main: number of threads joined so far
  ppm_pos,        \* write_ppm: number of pixels read so far
  wpc,            \* position of each worker
  oldstate,       \* render_worker: oldstate of its rng.next() call
  thread_rng,     \* render_worker: PCG32 thread_rng
  row,            \* render_worker: j
  col,            \* render_worker: i
  writes,         \* history: number of stores into each pixel index
  writer,         \* history: the workers that stored into each pixel index
  rowOwners,      \* history: the workers that processed each claimed row
  claims,         \* history: the row indices each worker claimed, in order
  oob,            \* history: a store outside [0, width * height) happened
  rngUsers,       \* history: the threads that called rng.next()
  run,            \* number of the render being performed (1 or 2)
  first,          \* the pixel buffer of the first render, once it is done
  ray,            \* Scene::hit: the ray
  t_min,          \* Scene::hit: t_min
  t_max,          \* Scene::hit: t_max
  objects,        \* Scene: objects
  hidx,           \* Scene::hit: number of objects scanned so far
  hit_anything,   \* Scene::hit: hit_anything
  closest_so_far, \* Scene::hit: closest_so_far
  rec,            \* Scene::hit: the caller's HitRecord
  hpc,            \* position of Scene::hit: "idle", "scan", "returned"
  winner,         \* history: index of the object whose hit filled rec
  stack,          \* ray_color: the chain of nested invocations
  cpc,            \* position of the outermost ray_color call
  depth0,         \* ray_color: depth of the outermost call
  num_lights,     \* Scene: lights.size()
  retval,         \* ray_color: value returned by the outermost call
  lastRet,        \* history: the invocation that returned last
  calls,          \* history: number of ray_color invocations so far
  hardware_concurrency, \* std::thread::hardware_concurrency()
  argv,           \* main: the command-line arguments argv[1 .. argc - 1]
  storage,        \* the bytes of a PCG32's state member before construction
  seed,           \* PCG32: the seed both instances are constructed with
  stream,         \* PCG32: the stream both instances are constructed with
  gen,            \* the PCG32 instances (state, inc), Unset before construction
  outs,           \* history: the values each instance's next() returned
  fl,             \* history: the last value next_float() returned
  call,           \* a call of a function of the library: name and arguments
  ret,            \* what the call returned and left in its out-parameters
  instance,       \* Logger::instance: 0 (nullptr) or the number of the object
  mutex,          \* Logger::mutex: 0 (free) or the thread that holds it
  min_level,      \* Logger: min_level
  log_to_file,    \* Logger: log_to_file
  log_to_console, \* Logger: log_to_console
  use_colors,     \* Logger: use_colors
  log_file,       \* Logger: log_file.is_open()
  lpc,            \* position of each thread that uses the logger
  local,          \* each thread: the pointer it read, the one it holds, its level
  constructed,    \* history: number of Logger objects constructed
  returned,       \* history: the pointers get_instance() returned
  unguarded       \* history: the fields accessed without the mutex held

driverVars == <<image_width, image_height, num_threads, rng, next_row, pixels,
                mainpc, launched, joined, ppm_pos, wpc, oldstate, thread_rng,
                row, col, writes, writer, rowOwners, claims, oob, rngUsers,
                run, first>>

hitVars == <<ray, t_min, t_max, objects, hidx, hit_anything, closest_so_far,
             rec, hpc, winner>>

colorVars == <<stack, cpc, depth0, num_lights, retval, lastRet, calls>>

hostVars == <<hardware_concurrency, argv>>

pcgVars == <<storage, seed, stream, gen, outs, fl>>

callVars == <<call, ret>>

logVars == <<instance, mutex, min_level, log_to_file, log_to_console,
             use_colors, log_file, lpc, local, constructed, returned,
             unguarded>>

Unset == <<>>
NoRng == [state |-> Zero64, inc |-> Zero64]
Workers == 0 .. (num_threads - 1)
PixelRange == 0 .. (image_width * image_height - 1)

\* the state of main when it reaches "Launch threads" for a render of
\* width w with n workers
Fresh(w, n) ==
  [image_width |-> w,
   image_height |-> HeightOf(w),
   num_threads |-> n,
   rng |-> PCG32(DEFAULT_SEED, DEFAULT_STREAM),
   next_row |-> 0,
   pixels |-> [k \in 0 .. (w * HeightOf(w) - 1) |-> Unset],
   wpc |-> [t \in 0 .. (n - 1) |-> "idle"],
   oldstate |-> [t \in 0 .. (n - 1) |-> Zero64],
   thread_rng |-> [t \in 0 .. (n - 1) |-> NoRng],
   zeros |-> [t \in 0 .. (n - 1) |-> 0],
   writes |-> [k \in 0 .. (w * HeightOf(w) - 1) |-> 0],
   writer |-> [k \in 0 .. (w * HeightOf(w) - 1) |-> {}],
   rowOwners |-> [j \in 0 .. (HeightOf(w) - 1) |-> {}],
   claims |-> [t \in 0 .. (n - 1) |-> <<>>]]

\* main up to the launch loop, for image width w and n worker threads
DriverStart(w, n) ==
    LET f == Fresh(w, n)
    IN  /\ image_width = f.image_width
        /\ image_height = f.image_height
        /\ num_threads = f.num_threads
        /\ rng = f.rng
        /\ next_row = f.next_row
        /\ pixels = f.pixels
        /\ mainpc = "launch"
        /\ launched = 0
        /\ joined = 0
        /\ ppm_pos = 0
        /\ wpc = f.wpc
        /\ oldstate = f.oldstate
        /\ thread_rng = f.thread_rng
        /\ row = f.zeros
        /\ col = f.zeros
        /\ writes = f.writes
        /\ writer = f.writer
        /\ rowOwners = f.rowOwners
        /\ claims = f.claims
        /\ oob = FALSE
        /\ rngUsers = {}
        /\ run = 1
        /\ first = Unset

DriverInit == \E w \in 1 .. MaxWidth, n \in 0 .. MaxThreads : DriverStart(w, n)

\* the driver is not running (the specifications of the other components)
DriverIdle ==
  /\ image_width = 0 /\ image_height = 0 /\ num_threads = 0
  /\ rng = NoRng /\ next_row = 0 /\ pixels = <<>>
  /\ mainpc = "done" /\ launched = 0 /\ joined = 0 /\ ppm_pos = 0
  /\ wpc = <<>> /\ oldstate = <<>> /\ thread_rng = <<>>
  /\ row = <<>> /\ col = <<>> /\ writes = <<>> /\ writer = <<>>
  /\ rowOwners = <<>> /\ claims = <<>> /\ oob = FALSE /\ rngUsers = {}
  /\ run = 0 /\ first = Unset

\* the program is run a second time with the same arguments: the same
\* scene, the same fixed master seed, the same image size and worker count
Rerun ==
  /\ mainpc = "done"
  /\ run = 1
  /\ LET f == Fresh(image_width, num_threads)
     IN  /\ rng' = f.rng
         /\ next_row' = f.next_row
         /\ pixels' = f.pixels
         /\ wpc' = f.wpc
         /\ oldstate' = f.oldstate
         /\ thread_rng' = f.thread_rng
         /\ row' = f.zeros
         /\ col' = f.zeros
         /\ writes' = f.writes
         /\ writer' = f.writer
         /\ rowOwners' = f.rowOwners
         /\ claims' = f.claims
  /\ mainpc' = "launch"
  /\ launched' = 0
  /\ joined' = 0
  /\ ppm_pos' = 0
  /\ oob' = FALSE
  /\ rngUsers' = {}
  /\ run' = 2
  /\ first' = pixels
  /\ UNCHANGED <<image_width, image_height, num_threads, hitVars, colorVars,
                 hostVars, logVars, pcgVars, callVars>>

\* threads.emplace_back(render_worker, t)
Launch ==
  /\ mainpc = "launch"
  /\ launched < num_threads
  /\ wpc' = [wpc EXCEPT ![launched] = "seed"]
  /\ launched' = launched + 1
  /\ UNCHANGED <<image_width, image_height, num_threads, rng, next_row, pixels,
                 mainpc, joined, ppm_pos, oldstate, thread_rng, row, col,
                 writes, writer, rowOwners, claims, oob, rngUsers, run, first,
                 hitVars, colorVars,
                 hostVars, logVars, pcgVars, callVars>>

\* the launch loop ends
LaunchDone ==
  /\ mainpc = "launch"
  /\ launched >= num_threads
  /\ mainpc' = "join"
  /\ UNCHANGED <<image_width, image_height, num_threads, rng, next_row, pixels,
                 launched, joined, ppm_pos, wpc, oldstate, thread_rng, row, col,
                 writes, writer, rowOwners, claims, oob, rngUsers, run, first,
                 hitVars, colorVars,
                 hostVars, logVars, pcgVars, callVars>>

Joinable_NoWait(t) == TRUE

\* th.join() returns once the thread has terminated
Joinable(t) == wpc[t] = "exit"

Join ==
  /\ mainpc = "join"
  /\ joined < num_threads
  /\ Joinable(joined)
  /\ joined' = joined + 1
  /\ UNCHANGED <<image_width, image_height, num_threads, rng, next_row, pixels,
                 mainpc, launched, ppm_pos, wpc, oldstate, thread_rng, row, col,
                 writes, writer, rowOwners, claims, oob, rngUsers, run, first,
                 hitVars, colorVars,
                 hostVars, logVars, pcgVars, callVars>>

\* the join loop ends; main calls write_ppm
JoinDone ==
  /\ mainpc = "join"
  /\ joined >= num_threads
  /\ mainpc' = "write"
  /\ UNCHANGED <<image_width, image_height, num_threads, rng, next_row, pixels,
                 launched, joined, ppm_pos, wpc, oldstate, thread_rng, row, col,
                 writes, writer, rowOwners, claims, oob, rngUsers, run, first,
                 hitVars, colorVars,
                 hostVars, logVars, pcgVars, callVars>>

\* write_ppm: index of the k-th pixel read, rows from the top (j = height - 1)
PpmIndex(k, w, h) == (h - 1 - (k \div w)) * w + (k % w)

\* write_ppm: Color pixel = pixels[j * width + i]
WritePpmRead ==
  /\ mainpc = "write"
  /\ ppm_pos < image_width * image_height
  /\ ppm_pos' = ppm_pos + 1
  /\ UNCHANGED <<image_width, image_height, num_threads, rng, next_row, pixels,
                 mainpc, launched, joined, wpc, oldstate, thread_rng, row, col,
                 writes, writer, rowOwners, claims, oob, rngUsers, run, first,
                 hitVars, colorVars,
                 hostVars, logVars, pcgVars, callVars>>

\* write_ppm returns and main returns 0
WritePpmDone ==
  /\ mainpc = "write"
  /\ ppm_pos >= image_width * image_height
  /\ mainpc' = "done"
  /\ UNCHANGED <<image_width, image_height, num_threads, rng, next_row, pixels,
                 launched, joined, ppm_pos, wpc, oldstate, thread_rng, row, col,
                 writes, writer, rowOwners, claims, oob, rngUsers, run, first,
                 hitVars, colorVars,
                 hostVars, logVars, pcgVars, callVars>>

\* rng.next() on the shared master generator is not atomic: the load of
\* rng.state and the store of the advanced state are separate steps, so two
\* workers can load the same oldstate (a lost update).
SeedLoad(t) ==
  /\ wpc[t] = "seed"
  /\ oldstate' = [oldstate EXCEPT ![t] = rng.state]
  /\ rngUsers' = rngUsers \cup {t}
  /\ wpc' = [wpc EXCEPT ![t] = "seed_store"]
  /\ UNCHANGED <<image_width, image_height, num_threads, rng, next_row, pixels,
                 mainpc, launched, joined, ppm_pos, thread_rng, row, col,
                 writes, writer, rowOwners, claims, oob, run, first,
                 hitVars, colorVars,
                 hostVars, logVars, pcgVars, callVars>>

\* PCG32 thread_rng(rng.next() + thread_id)
SeedOf(old, t) == Widen(Add32Int(Output(old), t))

SeedStore(t) ==
  /\ wpc[t] = "seed_store"
  /\ rng' = [rng EXCEPT !.state = Add64(Mul64(oldstate[t], PCG_MULT), rng.inc)]
  /\ thread_rng' = [thread_rng EXCEPT
                      ![t] = PCG32(SeedOf(oldstate[t], t), DEFAULT_STREAM)]
  /\ wpc' = [wpc EXCEPT ![t] = "claim"]
  /\ UNCHANGED <<image_width, image_height, num_threads, next_row, pixels,
                 mainpc, launched, joined, ppm_pos, oldstate, row, col,
                 writes, writer, rowOwners, claims, oob, rngUsers, run, first,
                 hitVars, colorVars,
                 hostVars, logVars, pcgVars, callVars>>

\* int j = next_row.fetch_add(1); if (j >= image_height) break;
Claim(t) ==
  /\ wpc[t] = "claim"
  /\ next_row' = FetchAdd(next_row)
  /\ claims' = [claims EXCEPT ![t] = Append(@, next_row)]
  /\ IF RowValid(next_row, image_height)
       THEN /\ row' = [row EXCEPT ![t] = next_row]
            /\ col' = [col EXCEPT ![t] = 0]
            /\ rowOwners' = IF next_row \in DOMAIN rowOwners
                              THEN [rowOwners EXCEPT ![next_row] = @ \cup {t}]
                              ELSE rowOwners
            /\ wpc' = [wpc EXCEPT ![t] = IF 0 < image_width THEN "pixel"
                                         ELSE "claim"]
       ELSE /\ wpc' = [wpc EXCEPT ![t] = "exit"]
            /\ UNCHANGED <<row, col, rowOwners>>
  /\ UNCHANGED <<image_width, image_height, num_threads, rng, pixels,
                 mainpc, launched, joined, ppm_pos, oldstate, thread_rng,
                 writes, writer, oob, rngUsers, run, first,
                 hitVars, colorVars,
                 hostVars, logVars, pcgVars, callVars>>

\* one iteration of the loop over i: the samples of pixel (i, j) and the
\* store pixels[j * image_width + i] = pixel_color
Pixel(t) ==
  /\ wpc[t] = "pixel"
  /\ LET idx == PixelIndex(row[t], col[t], image_width)
     IN  IF idx \in PixelRange
           THEN /\ pixels' = [pixels EXCEPT ![idx] = thread_rng[t]]
                /\ writes' = [writes EXCEPT ![idx] = @ + 1]
                /\ writer' = [writer EXCEPT ![idx] = @ \cup {t}]
                /\ oob' = oob
           ELSE /\ oob' = TRUE
                /\ UNCHANGED <<pixels, writes, writer>>
  /\ thread_rng' = [thread_rng EXCEPT
                      ![t] = AfterSamples(thread_rng[t], samples_per_pixel)]
  /\ col' = [col EXCEPT ![t] = @ + 1]
  /\ wpc' = [wpc EXCEPT ![t] = IF col[t] + 1 < image_width THEN "pixel"
                               ELSE "claim"]
  /\ UNCHANGED <<image_width, image_height, num_threads, rng, next_row,
                 mainpc, launched, joined, ppm_pos, oldstate, row,
                 rowOwners, claims, rngUsers, run, first,
                 hitVars, colorVars,
                 hostVars, logVars, pcgVars, callVars>>

Worker(t) ==
  t \in Workers /\ (SeedLoad(t) \/ SeedStore(t) \/ Claim(t) \/ Pixel(t))

Main == Launch \/ LaunchDone \/ Join \/ JoinDone \/ WritePpmRead \/ WritePpmDone

HitIdle ==
  /\ ray = <<>> /\ t_min = 0 /\ t_max = 0 /\ objects = <<>> /\ hidx = 0
  /\ hit_anything = FALSE /\ closest_so_far = 0 /\ rec = <<>>
  /\ hpc = "idle" /\ winner = 0

ColorIdle ==
  /\ stack = <<>> /\ cpc = "idle" /\ depth0 = 0 /\ num_lights = 0
  /\ retval = 0 /\ lastRet = <<>> /\ calls = 0

\* the program was started with the image width as its only argument, so
\* the worker count is the host's core count
HostDefault ==
  /\ hardware_concurrency = num_threads
  /\ argv = <<image_width>>

\* no program is running (the specifications of the library functions)
HostIdle == hardware_concurrency = 0 /\ argv = <<>>

\* no PCG32 instance exists
PcgIdle ==
  /\ storage = Zero64 /\ seed = Zero64 /\ stream = Zero64
  /\ gen = <<>> /\ outs = <<>> /\ fl = <<>>

\* no library function is being called
CallIdle == call = <<>> /\ ret = <<>>

\* no thread uses the logger
LogIdle ==
  /\ instance = 0 /\ mutex = 0 /\ min_level = 0
  /\ log_to_file = FALSE /\ log_to_console = FALSE /\ use_colors = FALSE
  /\ log_file = FALSE /\ lpc = <<>> /\ local = <<>> /\ constructed = 0
  /\ returned = {} /\ unguarded = {}

vars == <<driverVars, hitVars, colorVars,
                 hostVars, logVars, pcgVars, callVars>>

Init == DriverInit /\ HitIdle /\ ColorIdle /\ HostDefault /\ LogIdle /\ PcgIdle /\ CallIdle

Next ==
  \/ Launch
  \/ LaunchDone
  \/ Join
  \/ JoinDone
  \/ WritePpmRead
  \/ WritePpmDone
  \/ \E t \in Workers : SeedLoad(t)
  \/ \E t \in Workers : SeedStore(t)
  \/ \E t \in Workers : Claim(t)
  \/ \E t \in Workers : Pixel(t)

\* one render
Spec == Init /\ [][Next]_vars

\* one render, every thread scheduled fairly
SpecFair ==
  /\ Spec
  /\ WF_vars(Main)
  /\ \A t \in 0 .. (MaxThreads - 1) : WF_vars(Worker(t))

NextTwice == Next \/ Rerun

\* the program run twice with the same arguments
SpecTwice == Init /\ [][NextTwice]_vars

\* the command lines: kestrel <image_width>, and
\* kestrel <image_width> <image_height> <num_threads>
CommandLines ==
  {<<w>> : w \in 1 .. MaxWidth} \cup
  {<<w, 1, k>> : w \in 1 .. MaxWidth, k \in 0 .. MaxThreads}

Max(a, b) == IF a >= b THEN a ELSE b

\* main: num_threads from argc, argv[3] and hardware_concurrency()
NumThreads(args, cores) ==
  IF Len(args) + 1 >= 4 THEN Max(cores, args[3]) ELSE cores

\* main started with a command line on a host with some number of cores
\* (hardware_concurrency() may return 0)
InitThreads ==
  /\ HitIdle /\ ColorIdle /\ LogIdle /\ PcgIdle /\ CallIdle
  /\ argv \in CommandLines
  /\ hardware_concurrency \in 0 .. MaxThreads
  /\ DriverStart(argv[1], NumThreads(argv, hardware_concurrency))

\* one render of a given command line on a given host
SpecThreads == InitThreads /\ [][Next]_vars

\* ------------------------------------------------------------------------
\* Vectors, rays and hit records (vec3.cpp, ray.cpp, kestrel.h)
\*
\* Coordinates are integers and the arithmetic is exact.  The rays and the
\* shapes of the model are chosen so that every square root and every
\* quotient the code computes is an integer.
\* ------------------------------------------------------------------------
VAdd(a, b) == <<a[1] + b[1], a[2] + b[2], a[3] + b[3]>>
VSub(a, b) == <<a[1] - b[1], a[2] - b[2], a[3] - b[3]>>
VScale(k, a) == <<k * a[1], k * a[2], k * a[3]>>
Dot(a, b) == a[1] * b[1] + a[2] * b[2] + a[3] * b[3]
Cross(a, b) == <<a[2] * b[3] - a[3] * b[2], a[3] * b[1] - a[1] * b[3],
                 a[1] * b[2] - a[2] * b[1]>>
LengthSquared(a) == Dot(a, a)

\* n / d for an exact quotient, d # 0
Quot(n, d) == IF d > 0 THEN n \div d ELSE (0 - n) \div (0 - d)
VDiv(a, k) == <<Quot(a[1], k), Quot(a[2], k), Quot(a[3], k)>>

\* The float that is not a number (0.0f / 0.0f), encoded as an integer that
\* no computation of the model produces.
NaN == -1000000
NaNVec == <<NaN, NaN, NaN>>

\* x < y on floats: every comparison with NaN is false
FLess(x, y) == x # NaN /\ y # NaN /\ x < y

\* n / d on floats for an exact quotient; 0 / 0 is NaN (no code path of the
\* model divides a non-zero value by zero)
FDiv(n, d) == IF d = 0 /\ n = 0 THEN NaN ELSE Quot(n, d)

\* std::sqrt
Sqrt(n) == CHOOSE k \in 0 .. n : k * k <= n /\ (k + 1) * (k + 1) > n

Normalized_Unguarded(a) ==
  <<FDiv(a[1], Sqrt(LengthSquared(a))), FDiv(a[2], Sqrt(LengthSquared(a))),
    FDiv(a[3], Sqrt(LengthSquared(a)))>>

\* Vec3::normalized
Normalized(a) ==
  IF Sqrt(LengthSquared(a)) = 0 THEN <<0, 0, 0>>
  ELSE VDiv(a, Sqrt(LengthSquared(a)))

\* Ray::at
RayAt(r, t) == VAdd(r.origin, VScale(t, r.direction))

NullMaterial == 0
Uninit == "uninit"

\* HitRecord::HitRecord() : material(nullptr); the other fields are left
\* uninitialized
NewHitRecord ==
  [point |-> Uninit, normal |-> Uninit, t |-> Uninit, front_face |-> Uninit,
   material |-> NullMaterial]

SetFaceNormal_Flipped(r, rc, outward_normal) ==
  [rc EXCEPT !.front_face = Dot(r.direction, outward_normal) > 0,
             !.normal = IF Dot(r.direction, outward_normal) > 0
                          THEN outward_normal
                          ELSE VScale(-1, outward_normal)]

SetFaceNormal_NonStrict(r, rc, outward_normal) ==
  [rc EXCEPT !.front_face = Dot(r.direction, outward_normal) <= 0,
             !.normal = IF Dot(r.direction, outward_normal) <= 0
                          THEN outward_normal
                          ELSE VScale(-1, outward_normal)]

\* HitRecord::set_face_normal
SetFaceNormal(r, rc, outward_normal) ==
  [rc EXCEPT !.front_face = Dot(r.direction, outward_normal) < 0,
             !.normal = IF Dot(r.direction, outward_normal) < 0
                          THEN outward_normal
                          ELSE VScale(-1, outward_normal)]

\* ------------------------------------------------------------------------
\* Shapes (sphere.cpp, triangle.cpp, plymesh.cpp)
\* ------------------------------------------------------------------------
SphereOutOfRange_Exclusive(root, tmin, tmax) ==
  FLess(root, tmin) \/ ~FLess(root, tmax)

\* Sphere::hit: root < t_min || t_max < root
SphereOutOfRange(root, tmin, tmax) == FLess(root, tmin) \/ FLess(tmax, root)

Missed_Clobbered(rc) ==
  [hit |-> FALSE, rec |-> [rc EXCEPT !.material = NullMaterial]]

\* return false: nothing was stored through the HitRecord reference
Missed(rc) == [hit |-> FALSE, rec |-> rc]

\* Sphere::hit
SphereHit(sp, r, tmin, tmax, rc) ==
  LET oc == VSub(r.origin, sp.center)
      a == LengthSquared(r.direction)
      half_b == Dot(oc, r.direction)
      c == LengthSquared(oc) - sp.radius * sp.radius
      discriminant == half_b * half_b - a * c
      sqrtd == Sqrt(discriminant)
      root1 == FDiv((0 - half_b) - sqrtd, a)
      root2 == FDiv((0 - half_b) + sqrtd, a)
      \* with a NaN root, ray.at(root) and the outward normal are NaN, so
      \* dot(ray.direction, outward_normal) < 0 is false
      Fill(root) ==
        IF root = NaN
          THEN [hit |-> TRUE,
                rec |-> [rc EXCEPT !.t = NaN, !.point = NaNVec,
                                   !.front_face = FALSE, !.normal = NaNVec]]
          ELSE [hit |-> TRUE,
                rec |-> SetFaceNormal(r,
                          [rc EXCEPT !.t = root, !.point = RayAt(r, root)],
                          VDiv(VSub(RayAt(r, root), sp.center), sp.radius))]
  IN  IF discriminant < 0 THEN Missed(rc)
      ELSE IF ~SphereOutOfRange(root1, tmin, tmax) THEN Fill(root1)
      ELSE IF ~SphereOutOfRange(root2, tmin, tmax) THEN Fill(root2)
      ELSE Missed(rc)

\* Triangle::hit: t < t_min || t > t_max
TriangleOutOfRange(t, tmin, tmax) == FLess(t, tmin) \/ FLess(tmax, t)

BaryUOutside_Unchecked(u) == FALSE

\* Triangle::hit: (u < 0 && abs(u) > eps) || (u > 1 && abs(u - 1) > eps)
BaryUOutside(u) == u < 0 \/ u > 1

\* Triangle::hit (Moeller-Trumbore).  eps = 1e-8f lies strictly between 0
\* and 1, so on integers "det > -eps && det < eps" is det = 0 and
\* "u < 0 && abs(u) > eps" is u < 0; inv_det * x is the quotient x / det.
TriangleHit(tr, r, tmin, tmax, rc) ==
  LET edge1 == VSub(tr.v1, tr.v0)
      edge2 == VSub(tr.v2, tr.v0)
      h == Cross(r.direction, edge2)
      det == Dot(edge1, h)
      s == VSub(r.origin, tr.v0)
      u == Quot(Dot(s, h), det)
      s_cross_e1 == Cross(s, edge1)
      v == Quot(Dot(r.direction, s_cross_e1), det)
      t == Quot(Dot(edge2, s_cross_e1), det)
  IN  IF det = 0 THEN Missed(rc)
      ELSE IF BaryUOutside(u) THEN Missed(rc)
      ELSE IF v < 0 \/ u + v > 1 THEN Missed(rc)
      ELSE IF TriangleOutOfRange(t, tmin, tmax) THEN Missed(rc)
      ELSE [hit |-> TRUE,
            rec |-> [SetFaceNormal(r,
                       [rc EXCEPT !.t = t, !.point = RayAt(r, t)],
                       Normalized(Cross(edge1, edge2)))
                     EXCEPT !.material = tr.material]]

RECURSIVE MeshScan(_, _, _, _, _, _)
\* PlyMesh::hit after the first k triangles: hit_any, closest_so_far and the
\* caller's record
MeshScan(m, r, tmin, tmax, rc, k) ==
  IF k = 0 THEN [hit |-> FALSE, closest_so_far |-> tmax, rec |-> rc]
  ELSE LET prev == MeshScan(m, r, tmin, tmax, rc, k - 1)
           res == TriangleHit(m.triangles[k], r, tmin, prev.closest_so_far,
                              NewHitRecord)
       IN  IF res.hit
             THEN [hit |-> TRUE, closest_so_far |-> res.rec.t,
                   rec |-> [res.rec EXCEPT !.material = m.material]]
             ELSE prev

\* PlyMesh::hit
PlyMeshHit(m, r, tmin, tmax, rc) ==
  LET fin == MeshScan(m, r, tmin, tmax, rc, Len(m.triangles))
  IN  [hit |-> fin.hit, rec |-> fin.rec]

\* virtual Shape::hit
ShapeHit(obj, r, tmin, tmax, rc) ==
  IF obj.kind = "sphere" THEN SphereHit(obj, r, tmin, tmax, rc)
  ELSE IF obj.kind = "triangle" THEN TriangleHit(obj, r, tmin, tmax, rc)
  ELSE PlyMeshHit(obj, r, tmin, tmax, rc)

\* ------------------------------------------------------------------------
\* Scene::hit (scene.cpp)
\* ------------------------------------------------------------------------
MaxShapes == 3

Sphere(center, radius, material) ==
  [kind |-> "sphere", center |-> center, radius |-> radius,
   material |-> material]

Triangle(v0, v1, v2, material) ==
  [kind |-> "triangle", v0 |-> v0, v1 |-> v1, v2 |-> v2,
   material |-> material]

\* PlyMesh::PlyMesh hands its own material to every triangle it creates
PlyMesh(tris, material) ==
  [kind |-> "mesh",
   triangles |-> [k \in DOMAIN tris |->
                    Triangle(tris[k][1], tris[k][2], tris[k][3], material)],
   material |-> material]

\* the shapes scenes are built from; every shape has a material of its own
Catalogue ==
  { Sphere(<<0, 0, -10>>, 5, 1),
    Sphere(<<0, 0, 0>>, 5, 2),
    Sphere(<<0, 0, -7>>, 2, 3),
    Triangle(<<0, 0, -5>>, <<1, 0, -5>>, <<0, 1, -5>>, 4),
    Triangle(<<5, 0, 0>>, <<5, 1, 0>>, <<5, 0, 1>>, 5),
    PlyMesh(<< <<<<0, 0, -9>>, <<1, 0, -9>>, <<0, 1, -9>>>>,
               <<<<0, 0, -5>>, <<0, 1, -5>>, <<1, 0, -5>>>>,
               <<<<2, 0, -5>>, <<3, 0, -5>>, <<2, 1, -5>>>> >>, 6) }

Rays ==
  { [origin |-> <<0, 0, 0>>, direction |-> <<0, 0, -1>>],
    [origin |-> <<0, 0, 0>>, direction |-> <<1, 0, 0>>] }

TMins == {1, 6}
TMaxs == {9, 20}

HitInit ==
  /\ ray \in Rays
  /\ t_min \in TMins
  /\ t_max \in TMaxs
  /\ \E n \in 0 .. MaxShapes : objects \in [1 .. n -> Catalogue]
  /\ hidx = 0
  /\ hit_anything = FALSE
  /\ closest_so_far = t_max
  /\ rec = NewHitRecord
  /\ hpc = "scan"
  /\ winner = 0

ScanUpper_NotShrunk(closest, tmax) == tmax

\* obj.hit(ray, t_min, closest_so_far, rec): the upper end of the interval
ScanUpper(closest, tmax) == closest

MaterialAfterHit_Kept(obj, rc) == rc.material

\* rec.material = obj.material
MaterialAfterHit(obj, rc) == obj.material

\* one iteration of the loop over objects
HitScan ==
  /\ hpc = "scan"
  /\ hidx < Len(objects)
  /\ LET obj == objects[hidx + 1]
         res == ShapeHit(obj, ray, t_min, ScanUpper(closest_so_far, t_max), rec)
     IN  IF res.hit
           THEN /\ hit_anything' = TRUE
                /\ closest_so_far' = res.rec.t
                /\ rec' = [res.rec EXCEPT !.material = MaterialAfterHit(obj, res.rec)]
                /\ winner' = hidx + 1
           ELSE /\ rec' = res.rec
                /\ UNCHANGED <<hit_anything, closest_so_far, winner>>
  /\ hidx' = hidx + 1
  /\ UNCHANGED <<ray, t_min, t_max, objects, hpc, driverVars, colorVars,
                 hostVars, logVars, pcgVars, callVars>>

\* return hit_anything
HitReturn ==
  /\ hpc = "scan"
  /\ hidx >= Len(objects)
  /\ hpc' = "returned"
  /\ UNCHANGED <<ray, t_min, t_max, objects, hidx, hit_anything,
                 closest_so_far, rec, winner, driverVars, colorVars,
                 hostVars, logVars, pcgVars, callVars>>

HitNext ==
  \/ HitScan
  \/ HitReturn

\* one Scene::hit call
InitHit ==
  DriverIdle /\ HitInit /\ ColorIdle /\ HostIdle /\ LogIdle /\ PcgIdle /\ CallIdle

SpecHit == InitHit /\ [][HitNext]_vars

\* ------------------------------------------------------------------------
\* ray_color (kestrel.cpp)
\*
\* The scene is arbitrary: every Scene::hit query of an invocation may miss
\* or hit any material, and every light may be occluded or not.  Colours
\* have one channel with integer values; black is 0.
\* ------------------------------------------------------------------------
MaxDepth == 3
MaxLights == 1

\* const int shadow_samples = 2
shadow_samples == 2

\* Lambertian(albedo) : Material(0.0f), Conductor(albedo) : Material(1.0f)
Lambertian(albedo) == [reflectivity |-> 0, color |-> albedo]
Conductor(albedo) == [reflectivity |-> 1, color |-> albedo]

Materials == {Lambertian(2), Conductor(1), Conductor(2)}

\* cos_theta * intensity / (distance^2 + 1e-4f) of a light at a hit point
LightTerms == {0, 1}

DepthExhausted_Late(depth) == depth < 0

\* if (depth <= 0)
DepthExhausted(depth) == depth <= 0

ChildDepth_Skip(depth) == depth - 2

\* ray_color(reflected_ray, scene, depth - 1)
ChildDepth(depth) == depth - 1

\* HitRecord rec before scene.hit has filled it: no material to read
NoMaterial == [reflectivity |-> 0, color |-> 0]

\* a new invocation of ray_color
Frame(depth) ==
  [depth |-> depth, phase |-> "enter", material |-> NoMaterial,
   final_color |-> 0, reflected_color |-> 0, light |-> 0, queries |-> 0,
   recursed |-> 0]

Top == stack[Len(stack)]

ColorInit ==
  /\ depth0 \in -1 .. MaxDepth
  /\ num_lights \in 0 .. MaxLights
  /\ stack = <<Frame(depth0)>>
  /\ cpc = "running"
  /\ retval = 0
  /\ lastRet = <<>>
  /\ calls = 1

\* the top invocation returns v to its caller, which scales it by
\* reflectivity * get_color() into reflected_color
Return(v, queries) ==
  /\ lastRet' = [depth |-> Top.depth, value |-> v, queries |-> queries,
                 recursed |-> Top.recursed]
  /\ IF Len(stack) = 1
       THEN /\ stack' = <<>>
            /\ retval' = v
            /\ cpc' = "returned"
       ELSE LET caller == stack[Len(stack) - 1]
            IN  /\ stack' = [SubSeq(stack, 1, Len(stack) - 1) EXCEPT
                               ![Len(stack) - 1] =
                                 [@ EXCEPT !.reflected_color =
                                             v * caller.material.reflectivity
                                               * caller.material.color,
                                           !.phase = "blend"]]
                /\ UNCHANGED <<retval, cpc>>

\* if (depth <= 0) return Color(0, 0, 0);
ColorDepthLimit ==
  /\ cpc = "running"
  /\ Top.phase = "enter"
  /\ DepthExhausted(Top.depth)
  /\ Return(0, Top.queries)
  /\ UNCHANGED <<depth0, num_lights, calls, driverVars, hitVars,
                 hostVars, logVars, pcgVars, callVars>>

\* scene.hit(ray, 0.001f, 1000.0f, rec) finds nothing: return Color(0.0f)
ColorMiss ==
  /\ cpc = "running"
  /\ Top.phase = "enter"
  /\ ~DepthExhausted(Top.depth)
  /\ Return(0, Top.queries + 1)
  /\ UNCHANGED <<depth0, num_lights, calls, driverVars, hitVars,
                 hostVars, logVars, pcgVars, callVars>>

\* scene.hit(ray, 0.001f, 1000.0f, rec) returns a hit on some material
ColorHit ==
  /\ cpc = "running"
  /\ Top.phase = "enter"
  /\ ~DepthExhausted(Top.depth)
  /\ \E m \in Materials :
       stack' = [stack EXCEPT ![Len(stack)] =
                   [@ EXCEPT !.phase = "light", !.material = m,
                             !.queries = @ + 1]]
  /\ UNCHANGED <<cpc, depth0, num_lights, retval, lastRet, calls,
                 driverVars, hitVars,
                 hostVars, logVars, pcgVars, callVars>>

\* one iteration of the loop over scene.lights: the shadow_samples shadow
\* rays have the same origin, direction and interval, so Scene::hit gives
\* them the same answer
ColorLight ==
  /\ cpc = "running"
  /\ Top.phase = "light"
  /\ Top.light < num_lights
  /\ \E occluded \in BOOLEAN, term \in LightTerms :
       LET shadow_factor ==
             (IF occluded THEN 0 ELSE shadow_samples) \div shadow_samples
       IN  stack' = [stack EXCEPT ![Len(stack)] =
                       [@ EXCEPT !.final_color =
                                   @ + Top.material.color * term * shadow_factor,
                                 !.light = @ + 1,
                                 !.queries = @ + shadow_samples]]
  /\ UNCHANGED <<cpc, depth0, num_lights, retval, lastRet, calls,
                 driverVars, hitVars,
                 hostVars, logVars, pcgVars, callVars>>

\* if (rec.material->reflectivity > 0.0f): the recursive call
ColorReflect ==
  /\ cpc = "running"
  /\ Top.phase = "light"
  /\ Top.light >= num_lights
  /\ Top.material.reflectivity > 0
  /\ stack' = Append([stack EXCEPT ![Len(stack)] =
                        [@ EXCEPT !.phase = "wait", !.recursed = @ + 1]],
                     Frame(ChildDepth(Top.depth)))
  /\ calls' = calls + 1
  /\ UNCHANGED <<cpc, depth0, num_lights, retval, lastRet,
                 driverVars, hitVars,
                 hostVars, logVars, pcgVars, callVars>>

\* the material is not reflective: reflected_color stays (0, 0, 0)
ColorNoReflect ==
  /\ cpc = "running"
  /\ Top.phase = "light"
  /\ Top.light >= num_lights
  /\ ~(Top.material.reflectivity > 0)
  /\ stack' = [stack EXCEPT ![Len(stack)] = [@ EXCEPT !.phase = "blend"]]
  /\ UNCHANGED <<cpc, depth0, num_lights, retval, lastRet, calls,
                 driverVars, hitVars,
                 hostVars, logVars, pcgVars, callVars>>

Blend_Additive(final_color, reflectivity, reflected_color) ==
  final_color + reflected_color

\* final_color * (1.0f - rec.material->reflectivity) + reflected_color
Blend(final_color, reflectivity, reflected_color) ==
  final_color * (1 - reflectivity) + reflected_color

\* return final_color * (1.0f - reflectivity) + reflected_color
ColorBlend ==
  /\ cpc = "running"
  /\ Top.phase = "blend"
  /\ Return(Blend(Top.final_color, Top.material.reflectivity,
                  Top.reflected_color), Top.queries)
  /\ UNCHANGED <<depth0, num_lights, calls, driverVars, hitVars,
                 hostVars, logVars, pcgVars, callVars>>

ColorNext ==
  \/ ColorDepthLimit
  \/ ColorMiss
  \/ ColorHit
  \/ ColorLight
  \/ ColorReflect
  \/ ColorNoReflect
  \/ ColorBlend

\* one outermost ray_color call
InitColor ==
  DriverIdle /\ HitIdle /\ ColorInit /\ HostIdle /\ LogIdle /\ PcgIdle /\ CallIdle

SpecColor == InitColor /\ [][ColorNext]_vars

\* the call is not suspended for ever
SpecColorFair == SpecColor /\ WF_vars(ColorNext)

\* ------------------------------------------------------------------------
\* Sphere::hit called on its own (sphere.cpp)
\*
\* The spheres and rays are chosen so that every discriminant is negative
\* or a perfect square; a ray may have the zero direction (the direction
\* Light::sample_direction returns for a point at the light's position).
\* ------------------------------------------------------------------------
Spheres ==
  {Sphere(<<0, 0, -10>>, 5, 1), Sphere(<<0, 0, 0>>, 5, 1),
   Sphere(<<0, 0, -7>>, 2, 1), Sphere(<<3, 0, -10>>, 5, 1),
   Sphere(<<0, 4, 12>>, 5, 1), Sphere(<<6, 0, 0>>, 3, 1),
   Sphere(<<0, -9, -5>>, 4, 1)}

Axes == {<<1, 0, 0>>, <<0, 1, 0>>, <<0, 0, 1>>}

Directions == Axes \cup {VScale(-1, a) : a \in Axes} \cup {<<0, 0, 0>>}

Origins == {<<0, 0, 0>>, <<0, 0, -5>>}

SphereRays == {[origin |-> o, direction |-> d] : o \in Origins, d \in Directions}

SphereTMins == {0, 1, 6}

InitSphereHit ==
  /\ DriverIdle /\ HitIdle /\ ColorIdle /\ HostIdle /\ LogIdle /\ PcgIdle
  /\ \E sp \in Spheres, r \in SphereRays, lo \in SphereTMins, hi \in TMaxs :
       call = [fn |-> "Sphere::hit", self |-> sp, ray |-> r, t_min |-> lo,
               t_max |-> hi, pc |-> "called"]
  /\ ret = <<>>

\* bool Sphere::hit(ray, t_min, t_max, rec) on a fresh HitRecord
SphereHitCall ==
  /\ call.pc = "called"
  /\ ret' = SphereHit(call.self, call.ray, call.t_min, call.t_max,
                      NewHitRecord)
  /\ call' = [call EXCEPT !.pc = "returned"]
  /\ UNCHANGED <<driverVars, hitVars, colorVars, hostVars, logVars, pcgVars>>

SpecSphereHit == InitSphereHit /\ [][SphereHitCall]_vars

\* ------------------------------------------------------------------------
\* HitRecord::set_face_normal called on its own (kestrel.h)
\* ------------------------------------------------------------------------
Grid == {<<x, y, z>> : x \in -1 .. 1, y \in -1 .. 1, z \in -1 .. 1}

InitSetFaceNormal ==
  /\ DriverIdle /\ HitIdle /\ ColorIdle /\ HostIdle /\ LogIdle /\ PcgIdle
  /\ \E d \in Grid, n \in Grid :
       call = [fn |-> "HitRecord::set_face_normal",
               ray |-> [origin |-> <<0, 0, 0>>, direction |-> d],
               outward_normal |-> n, pc |-> "called"]
  /\ ret = <<>>

\* rec.set_face_normal(ray, outward_normal) on a fresh HitRecord
SetFaceNormalCall ==
  /\ call.pc = "called"
  /\ ret' = SetFaceNormal(call.ray, NewHitRecord, call.outward_normal)
  /\ call' = [call EXCEPT !.pc = "returned"]
  /\ UNCHANGED <<driverVars, hitVars, colorVars, hostVars, logVars, pcgVars>>

SpecSetFaceNormal == InitSetFaceNormal /\ [][SetFaceNormalCall]_vars

\* ------------------------------------------------------------------------
\* Triangle::hit called on its own (triangle.cpp)
\*
\* The triangles have unit legs along the axes and the rays start on
\* lattice points with a component of size 1 across the triangle's plane,
\* so det is 1 or -1 and u, v and t are integers.
\* ------------------------------------------------------------------------
Triangles ==
  {Triangle(<<0, 0, -5>>, <<1, 0, -5>>, <<0, 1, -5>>, 1),
   Triangle(<<0, 0, -5>>, <<0, 1, -5>>, <<1, 0, -5>>, 1),
   Triangle(<<5, 0, -4>>, <<5, 1, -4>>, <<5, 0, -3>>, 1)}

TriangleRays ==
  {[origin |-> <<x, y, -4>>, direction |-> d] :
     x \in -1 .. 2, y \in -1 .. 2,
     d \in {<<0, 0, -1>>, <<1, 0, -1>>, <<0, -1, -1>>, <<1, 0, 0>>,
            <<0, 0, 1>>}}

InitTriangleHit ==
  /\ DriverIdle /\ HitIdle /\ ColorIdle /\ HostIdle /\ LogIdle /\ PcgIdle
  /\ \E tr \in Triangles, r \in TriangleRays, lo \in TMins, hi \in TMaxs :
       call = [fn |-> "Triangle::hit", self |-> tr, ray |-> r, t_min |-> lo,
               t_max |-> hi, pc |-> "called"]
  /\ ret = <<>>

\* bool Triangle::hit(ray, t_min, t_max, rec) on a fresh HitRecord
TriangleHitCall ==
  /\ call.pc = "called"
  /\ ret' = TriangleHit(call.self, call.ray, call.t_min, call.t_max,
                        NewHitRecord)
  /\ call' = [call EXCEPT !.pc = "returned"]
  /\ UNCHANGED <<driverVars, hitVars, colorVars, hostVars, logVars, pcgVars>>

SpecTriangleHit == InitTriangleHit /\ [][TriangleHitCall]_vars

\* ------------------------------------------------------------------------
\* reflect (vec3.cpp), applied twice with the same normal
\* ------------------------------------------------------------------------
Reflect_Halved(v, n) == VSub(v, VScale(Dot(v, n), n))

\* reflect: v - 2.0f * Vec3::dot(v, n) * n
Reflect(v, n) == VSub(v, VScale(2 * Dot(v, n), n))

InitReflect ==
  /\ DriverIdle /\ HitIdle /\ ColorIdle /\ HostIdle /\ LogIdle /\ PcgIdle
  /\ \E v \in Grid, n \in Grid :
       call = [fn |-> "reflect", v |-> v, n |-> n, pc |-> "called"]
  /\ ret = <<>>

\* r = reflect(v, n)
ReflectCall ==
  /\ call.pc = "called"
  /\ ret' = [once |-> Reflect(call.v, call.n), twice |-> call.v]
  /\ call' = [call EXCEPT !.pc = "reflected"]
  /\ UNCHANGED <<driverVars, hitVars, colorVars, hostVars, logVars, pcgVars>>

\* reflect(r, n)
ReflectAgainCall ==
  /\ call.pc = "reflected"
  /\ ret' = [ret EXCEPT !.twice = Reflect(ret.once, call.n)]
  /\ call' = [call EXCEPT !.pc = "returned"]
  /\ UNCHANGED <<driverVars, hitVars, colorVars, hostVars, logVars, pcgVars>>

ReflectNext == ReflectCall \/ ReflectAgainCall

SpecReflect == InitReflect /\ [][ReflectNext]_vars

\* ------------------------------------------------------------------------
\* Vec3::normalized and its callers (vec3.cpp, light.cpp, camera.cpp)
\*
\* The vectors handed to normalized lie on a coordinate axis, so that their
\* length is an integer; the zero vector is among them.
\* ------------------------------------------------------------------------
AxisVectors == {VScale(k, a) : k \in -2 .. 2, a \in Axes}

AxisPoints == {VScale(k, <<0, 0, 1>>) : k \in -2 .. 2}

\* Light::sample_direction
SampleDirection(position, point) == Normalized(VSub(position, point))

\* Camera::Camera: the basis vectors w and u
CameraBasis(look_from, look_at, vup) ==
  [w |-> Normalized(VSub(look_from, look_at)),
   u |-> Normalized(Cross(vup, Normalized(VSub(look_from, look_at))))]

InitNormalized ==
  /\ DriverIdle /\ HitIdle /\ ColorIdle /\ HostIdle /\ LogIdle /\ PcgIdle
  /\ \/ \E v \in AxisVectors :
          call = [fn |-> "Vec3::normalized", v |-> v, pc |-> "called"]
     \/ \E p \in AxisPoints, q \in AxisPoints :
          call = [fn |-> "Light::sample_direction", position |-> p,
                  point |-> q, pc |-> "called"]
     \/ \E p \in AxisPoints, q \in AxisPoints, up \in Axes \cup {<<0, 0, 0>>} :
          call = [fn |-> "Camera::Camera", look_from |-> p, look_at |-> q,
                  vup |-> up, pc |-> "called"]
  /\ ret = <<>>

\* v.normalized()
NormalizedCall ==
  /\ call.pc = "called"
  /\ call.fn = "Vec3::normalized"
  /\ ret' = <<Normalized(call.v)>>
  /\ call' = [call EXCEPT !.pc = "returned"]
  /\ UNCHANGED <<driverVars, hitVars, colorVars, hostVars, logVars, pcgVars>>

\* light.sample_direction(point)
SampleDirectionCall ==
  /\ call.pc = "called"
  /\ call.fn = "Light::sample_direction"
  /\ ret' = <<SampleDirection(call.position, call.point)>>
  /\ call' = [call EXCEPT !.pc = "returned"]
  /\ UNCHANGED <<driverVars, hitVars, colorVars, hostVars, logVars, pcgVars>>

\* Camera(look_from, look_at, vup, vfov, aspect_ratio)
CameraCall ==
  /\ call.pc = "called"
  /\ call.fn = "Camera::Camera"
  /\ ret' = LET b == CameraBasis(call.look_from, call.look_at, call.vup)
            IN  <<b.w, b.u>>
  /\ call' = [call EXCEPT !.pc = "returned"]
  /\ UNCHANGED <<driverVars, hitVars, colorVars, hostVars, logVars, pcgVars>>

NormalizedNext == NormalizedCall \/ SampleDirectionCall \/ CameraCall

SpecNormalized == InitNormalized /\ [][NormalizedNext]_vars

\* ------------------------------------------------------------------------
\* Two PCG32 instances constructed with the same seed and stream (pcg32.h)
\* ------------------------------------------------------------------------
MaxCalls == 3

Ones64 == <<255, 255, 255, 255, 255, 255, 255, 255>>

\* 0x713ef03729ebcec6: with the default stream the first next() of a
\* generator seeded with it returns 0xffffffff
SEED_ALL_ONES == <<198, 206, 235, 41, 55, 240, 62, 113>>

Seeds == {DEFAULT_SEED, Zero64, Ones64, SEED_ALL_ONES}

Streams == {DEFAULT_STREAM, Zero64, Ones64}

\* what the storage of an object may hold before its constructor runs
StorageValues == {Zero64, Ones64}

Instances == 1 .. 2

NoInstance == [state |-> Zero64, inc |-> Zero64, live |-> FALSE]

StateMember_Uninitialised == storage

\* PCG32::PCG32: the member initialiser state(0)
StateMember == Zero64

InitPcg ==
  /\ DriverIdle /\ HitIdle /\ ColorIdle /\ HostIdle /\ LogIdle /\ CallIdle
  /\ seed \in Seeds
  /\ stream \in Streams
  /\ storage \in StorageValues
  /\ gen = [i \in Instances |-> NoInstance]
  /\ outs = [i \in Instances |-> <<>>]
  /\ fl = <<>>

\* PCG32 g(seed, stream), in storage that holds arbitrary bytes
PcgConstruct(i) ==
  /\ ~gen[i].live
  /\ gen' = [gen EXCEPT ![i] =
               [state |-> Construct(StateMember, seed, stream).state,
                inc |-> Construct(StateMember, seed, stream).inc,
                live |-> TRUE]]
  /\ storage' \in StorageValues
  /\ UNCHANGED <<seed, stream, outs, fl, driverVars, hitVars, colorVars,
                 hostVars, logVars, callVars>>

\* g.next()
PcgNext(i) ==
  /\ gen[i].live
  /\ Len(outs[i]) < MaxCalls
  /\ gen' = [gen EXCEPT ![i] = Next32(gen[i]).rng]
  /\ outs' = [outs EXCEPT ![i] = Append(@, Next32(gen[i]).val)]
  /\ UNCHANGED <<storage, seed, stream, fl, driverVars, hitVars, colorVars,
                 hostVars, logVars, callVars>>

\* g.next_float(), which calls next()
PcgNextFloat(i) ==
  /\ gen[i].live
  /\ Len(outs[i]) < MaxCalls
  /\ gen' = [gen EXCEPT ![i] = NextFloat(gen[i]).rng]
  /\ outs' = [outs EXCEPT ![i] = Append(@, Next32(gen[i]).val)]
  /\ fl' = NextFloat(gen[i]).val
  /\ UNCHANGED <<storage, seed, stream, driverVars, hitVars, colorVars,
                 hostVars, logVars, callVars>>

PcgNextStep ==
  \/ \E i \in Instances : PcgConstruct(i)
  \/ \E i \in Instances : PcgNext(i)
  \/ \E i \in Instances : PcgNextFloat(i)

SpecPcg == InitPcg /\ [][PcgNextStep]_vars

\* ------------------------------------------------------------------------
\* Triangle::scale (triangle.cpp) and PlyMesh::scale (ply_mesh.cpp)
\* ------------------------------------------------------------------------
\* Vec3::operator*(const Vec3 &): component-wise product
VMul(a, b) == <<a[1] * b[1], a[2] * b[2], a[3] * b[3]>>

\* Triangle::scale(factor): v0 = v0 * factor.x; v1 = v1 * factor.y;
\* v2 = v2 * factor.z, each a Vec3 times a float
TriangleScale(tr, factor) ==
  [tr EXCEPT !.v0 = VScale(factor[1], tr.v0),
             !.v1 = VScale(factor[2], tr.v1),
             !.v2 = VScale(factor[3], tr.v2)]

\* PlyMesh::scale(factor): tri.scale(factor) for every triangle
PlyMeshScale(triangles, factor) ==
  [k \in 1 .. Len(triangles) |-> TriangleScale(triangles[k], factor)]

Meshes ==
  {<<a>> : a \in Triangles} \cup {<<a, b>> : a \in Triangles, b \in Triangles}

Factors == {<<x, y, z>> : x \in {1, 2}, y \in {-1, 1, 2}, z \in {1, 2, 3}}

InitScale ==
  /\ DriverIdle /\ HitIdle /\ ColorIdle /\ HostIdle /\ LogIdle /\ PcgIdle
  /\ \/ \E tr \in Triangles, f \in Factors :
          call = [fn |-> "Triangle::scale", self |-> <<tr>>, factor |-> f,
                  pc |-> "called"]
     \/ \E m \in Meshes, f \in Factors :
          call = [fn |-> "PlyMesh::scale", self |-> m, factor |-> f,
                  pc |-> "called"]
  /\ ret = <<>>

\* tri.scale(factor)
TriangleScaleCall ==
  /\ call.pc = "called"
  /\ call.fn = "Triangle::scale"
  /\ ret' = <<TriangleScale(call.self[1], call.factor)>>
  /\ call' = [call EXCEPT !.pc = "returned"]
  /\ UNCHANGED <<driverVars, hitVars, colorVars, hostVars, logVars, pcgVars>>

\* mesh.scale(factor)
PlyMeshScaleCall ==
  /\ call.pc = "called"
  /\ call.fn = "PlyMesh::scale"
  /\ ret' = PlyMeshScale(call.self, call.factor)
  /\ call' = [call EXCEPT !.pc = "returned"]
  /\ UNCHANGED <<driverVars, hitVars, colorVars, hostVars, logVars, pcgVars>>

ScaleNext == TriangleScaleCall \/ PlyMeshScaleCall

SpecScale == InitScale /\ [][ScaleNext]_vars

\* ------------------------------------------------------------------------
\* render_worker: the image-plane coordinates of one sample (kestrel.cpp)
\* ------------------------------------------------------------------------
\* i + f in single precision, for an int i in 0 .. 7 and a float f given as
\* its numerator over 2^32: the exact sum i * 2^32 + f rounded to nearest,
\* ties to even, to a 24-bit significand; the result as 5 bytes over 2^32
IntPlusFloat(i, f) ==
  LET top == f[5] + i
      k == BitLen(top)
      q == 2 ^ k
      rem == (f[2] % q) * 256 + f[1]
      kept == <<0, f[2] - (f[2] % q), f[3], f[4], top>>
      odd == (f[2] \div q) % 2 = 1
      up == 2 * rem > 256 * q \/ (2 * rem = 256 * q /\ odd)
  IN  IF top = 0 THEN f
      ELSE IF up THEN AddBytes(kept, <<0, q, 0, 0, 0>>, 1, 0)
      ELSE kept

\* (i + thread_rng.next_float()) / (n - 1), kept as the numerator over 2^32
\* and the divisor
Coordinate(i, f, n) == [num |-> IntPlusFloat(i, f), den |-> n - 1]

\* one iteration of the loop over s for pixel (i, j): u, v and the generator
SampleUV(g, i, j, w, h) ==
  LET a == NextFloat(g)
      b == NextFloat(a.rng)
  IN  [u |-> Coordinate(i, a.val, w), v |-> Coordinate(j, b.val, h),
       rng |-> b.rng]

\* image widths whose height static_cast<int>(width / aspect_ratio) is 2 or 3
SampleWidths == MaxWidth .. (MaxWidth + 3)

InitSample ==
  /\ DriverIdle /\ HitIdle /\ ColorIdle /\ HostIdle /\ LogIdle /\ PcgIdle
  /\ \E w \in SampleWidths, t \in 0 .. 1 :
       \E i \in 0 .. (w - 1), j \in 0 .. (HeightOf(w) - 1) :
         call = [fn |-> "render_worker", image_width |-> w,
                 image_height |-> HeightOf(w), i |-> i, j |-> j,
                 thread_rng |->
                   PCG32(SeedOf(PCG32(DEFAULT_SEED, DEFAULT_STREAM).state, t),
                         DEFAULT_STREAM),
                 pc |-> "called"]
  /\ ret = <<>>

\* the first sample of pixel (i, j): u, v, camera.get_ray(u, v)
SampleCall ==
  /\ call.pc = "called"
  /\ ret' = SampleUV(call.thread_rng, call.i, call.j, call.image_width,
                     call.image_height)
  /\ call' = [call EXCEPT !.pc = "returned"]
  /\ UNCHANGED <<driverVars, hitVars, colorVars, hostVars, logVars, pcgVars>>

SpecSample == InitSample /\ [][SampleCall]_vars

\* ------------------------------------------------------------------------
\* Logger (include/logger.h, logger.cpp), used by concurrent threads
\* ------------------------------------------------------------------------
LogThreads == 1 .. MaxThreads

\* enum class LogLevel { DEBUG, INFO, WARNING, ERROR }
LogLevels == 0 .. 3

NoLocal == [seen |-> 0, ptr |-> 0, level |-> 0]

\* the threads are started, Logger::instance = nullptr (logger.cpp)
LogInit ==
  /\ instance = 0 /\ mutex = 0 /\ min_level = 0
  /\ log_to_file = FALSE /\ log_to_console = FALSE /\ use_colors = FALSE
  /\ log_file = FALSE
  /\ lpc = [t \in LogThreads |-> "ready"]
  /\ local = [t \in LogThreads |-> NoLocal]
  /\ constructed = 0 /\ returned = {} /\ unguarded = {}

logFields == <<min_level, log_to_file, log_to_console, use_colors, log_file>>

\* the fields accessed without the mutex held, after thread t accessed fs
Touch(t, fs) == IF mutex = t THEN unguarded ELSE unguarded \cup fs

\* get_instance(): the unsynchronised test instance == nullptr.  The read
\* races with the store under the mutex, so it yields the stored pointer or
\* the null pointer that was there before.
GetInstanceCheck(t) ==
  /\ lpc[t] = "ready"
  /\ \E v \in {0, instance} :
       /\ local' = [local EXCEPT ![t].seen = v]
       /\ lpc' = [lpc EXCEPT ![t] = IF v = 0 THEN "gi_lock" ELSE "gi_return"]
  /\ UNCHANGED <<instance, mutex, logFields, constructed, returned, unguarded>>

\* std::lock_guard<std::mutex> lock(mutex)
GetInstanceLock(t) ==
  /\ lpc[t] = "gi_lock"
  /\ mutex = 0
  /\ mutex' = t
  /\ lpc' = [lpc EXCEPT ![t] = "gi_locked"]
  /\ UNCHANGED <<instance, logFields, local, constructed, returned, unguarded>>

StillNull_Unchecked(p) == TRUE

\* the second test instance == nullptr, made with the mutex held
StillNull(p) == p = 0

\* if (instance == nullptr) instance = new Logger(); and the end of the
\* guarded block
GetInstanceLocked(t) ==
  /\ lpc[t] = "gi_locked"
  /\ IF StillNull(instance)
       THEN /\ constructed' = constructed + 1
            /\ instance' = constructed + 1
            /\ min_level' = 1
            /\ log_to_file' = FALSE
            /\ log_to_console' = TRUE
            /\ use_colors' = TRUE
            /\ log_file' = FALSE
            /\ local' = [local EXCEPT ![t].seen = constructed + 1]
       ELSE /\ local' = [local EXCEPT ![t].seen = instance]
            /\ UNCHANGED <<instance, logFields, constructed>>
  /\ mutex' = 0
  /\ lpc' = [lpc EXCEPT ![t] = "gi_return"]
  /\ UNCHANGED <<returned, unguarded>>

\* return instance
GetInstanceReturn(t) ==
  /\ lpc[t] = "gi_return"
  /\ local' = [local EXCEPT ![t] = [NoLocal EXCEPT !.ptr = local[t].seen]]
  /\ returned' = returned \cup {local[t].seen}
  /\ lpc' = [lpc EXCEPT ![t] = "ready"]
  /\ UNCHANGED <<instance, mutex, logFields, constructed, unguarded>>

\* void set_log_level(LogLevel level) { min_level = level; }
SetLogLevel(t) ==
  /\ lpc[t] = "ready" /\ local[t].ptr # 0
  /\ min_level' \in LogLevels
  /\ unguarded' = Touch(t, {"min_level"})
  /\ UNCHANGED <<instance, mutex, log_to_file, log_to_console, use_colors,
                 log_file, lpc, local, constructed, returned>>

\* void set_console_logging(bool enabled) { log_to_console = enabled; }
SetConsoleLogging(t) ==
  /\ lpc[t] = "ready" /\ local[t].ptr # 0
  /\ log_to_console' \in BOOLEAN
  /\ unguarded' = Touch(t, {"log_to_console"})
  /\ UNCHANGED <<instance, mutex, min_level, log_to_file, use_colors,
                 log_file, lpc, local, constructed, returned>>

\* void set_colored_output(bool enabled) { use_colors = enabled; }
SetColoredOutput(t) ==
  /\ lpc[t] = "ready" /\ local[t].ptr # 0
  /\ use_colors' \in BOOLEAN
  /\ unguarded' = Touch(t, {"use_colors"})
  /\ UNCHANGED <<instance, mutex, min_level, log_to_file, log_to_console,
                 log_file, lpc, local, constructed, returned>>

\* enable_file_logging, disable_file_logging and log past its level test:
\* std::lock_guard<std::mutex> lock(mutex)
LogLock(t) ==
  /\ lpc[t] \in {"enable_lock", "disable_lock", "log_lock"}
  /\ mutex = 0
  /\ mutex' = t
  /\ lpc' = [lpc EXCEPT ![t] = IF lpc[t] = "enable_lock" THEN "enable"
                               ELSE IF lpc[t] = "disable_lock" THEN "disable"
                               ELSE "log"]
  /\ UNCHANGED <<instance, logFields, local, constructed, returned, unguarded>>

\* a thread that holds the pointer calls enable_file_logging(filepath),
\* disable_file_logging() or log(level, message)
LogCall(t) ==
  /\ lpc[t] = "ready" /\ local[t].ptr # 0
  /\ \/ /\ lpc' = [lpc EXCEPT ![t] = "enable_lock"]
        /\ local' = local
     \/ /\ lpc' = [lpc EXCEPT ![t] = "disable_lock"]
        /\ local' = local
     \/ \E level \in LogLevels :
          /\ lpc' = [lpc EXCEPT ![t] = "log_test"]
          /\ local' = [local EXCEPT ![t].level = level]
  /\ UNCHANGED <<instance, mutex, logFields, constructed, returned, unguarded>>

\* enable_file_logging: the body and the end of the guarded block; the
\* file opens or does not
EnableFileLogging(t) ==
  /\ lpc[t] = "enable"
  /\ \E opened \in BOOLEAN :
       /\ log_file' = opened
       /\ log_to_file' = opened
  /\ unguarded' = Touch(t, {"log_file", "log_to_file"})
  /\ mutex' = 0
  /\ lpc' = [lpc EXCEPT ![t] = "ready"]
  /\ UNCHANGED <<instance, min_level, log_to_console, use_colors, local,
                 constructed, returned>>

\* disable_file_logging: the body and the end of the guarded block
DisableFileLogging(t) ==
  /\ lpc[t] = "disable"
  /\ log_file' = FALSE
  /\ log_to_file' = FALSE
  /\ unguarded' = Touch(t, {"log_file", "log_to_file"})
  /\ mutex' = 0
  /\ lpc' = [lpc EXCEPT ![t] = "ready"]
  /\ UNCHANGED <<instance, min_level, log_to_console, use_colors, local,
                 constructed, returned>>

\* log: if (level < min_level) return; made before the mutex is taken
LogLevelTest(t) ==
  /\ lpc[t] = "log_test"
  /\ unguarded' = Touch(t, {"min_level"})
  /\ lpc' = [lpc EXCEPT ![t] = IF local[t].level < min_level THEN "ready"
                               ELSE "log_lock"]
  /\ local' = [local EXCEPT ![t].level = 0]
  /\ UNCHANGED <<instance, mutex, logFields, constructed, returned>>

\* log: the body, which reads log_to_console, use_colors (get_color_code,
\* get_reset_code), log_to_file and log_file, and the end of the function
Log(t) ==
  /\ lpc[t] = "log"
  /\ unguarded' = Touch(t, (IF log_to_console THEN {"use_colors"} ELSE {})
                             \cup {"log_to_console", "log_to_file"}
                             \cup (IF log_to_file THEN {"log_file"} ELSE {}))
  /\ mutex' = 0
  /\ lpc' = [lpc EXCEPT ![t] = "ready"]
  /\ UNCHANGED <<instance, logFields, local, constructed, returned>>

LogThread(t) ==
  /\ \/ GetInstanceCheck(t) \/ GetInstanceLock(t) \/ GetInstanceLocked(t)
     \/ GetInstanceReturn(t) \/ SetLogLevel(t) \/ SetConsoleLogging(t)
     \/ SetColoredOutput(t) \/ LogCall(t) \/ LogLock(t)
     \/ EnableFileLogging(t) \/ DisableFileLogging(t) \/ LogLevelTest(t)
     \/ Log(t)
  /\ UNCHANGED <<driverVars, hitVars, colorVars, hostVars, pcgVars, callVars>>

LogNext == \E t \in LogThreads : LogThread(t)

InitLogger ==
  /\ DriverIdle /\ HitIdle /\ ColorIdle /\ HostIdle /\ PcgIdle /\ CallIdle
  /\ LogInit

SpecLogger == InitLogger /\ [][LogNext]_vars

\* ------------------------------------------------------------------------
\* ray_color: the shadow rays of one light at one hit point (kestrel.cpp)
\*
\* Lengths are in units of 0.001, so that the offsets 0.001f are 1.
\* ------------------------------------------------------------------------
ShadowBias == 1

\* Scene::hit as a truth value, for a scene of spheres: hit_anything is set
\* by the first object whose hit succeeds in [t_min, t_max]
SceneHitAny(objs, r, tmin, tmax) ==
  \E k \in 1 .. Len(objs) : SphereHit(objs[k], r, tmin, tmax, NewHitRecord).hit

ShadowRay_Jittered(position, point, normal, i) ==
  [ray |-> [origin |-> VAdd(point, VScale(ShadowBias, normal)),
            direction |-> SampleDirection(VAdd(position, <<2 * i, 0, 0>>),
                                          point)],
   t_min |-> ShadowBias,
   t_max |-> Sqrt(LengthSquared(VSub(position, point))) - ShadowBias]

\* iteration i of the loop over the shadow samples: light_dir,
\* light_distance, shadow_origin, shadow_ray and the interval handed to
\* scene.hit
ShadowRay(position, point, normal, i) ==
  [ray |-> [origin |-> VAdd(point, VScale(ShadowBias, normal)),
            direction |-> SampleDirection(position, point)],
   t_min |-> ShadowBias,
   t_max |-> Sqrt(LengthSquared(VSub(position, point))) - ShadowBias]

ShadowPoints == {<<0, 0, 0>>, <<0, 3, 0>>}

ShadowLights == {<<0, 0, 6>>, <<0, 6, 0>>, <<6, 0, 0>>, <<0, 0, 0>>}

ShadowScenes ==
  {<<>>, <<Sphere(<<0, 0, 3>>, 1, 1)>>, <<Sphere(<<3, 0, 0>>, 1, 1)>>,
   <<Sphere(<<0, 0, 3>>, 1, 1), Sphere(<<0, 5, 0>>, 1, 1)>>}

InitShadow ==
  /\ DriverIdle /\ HitIdle /\ ColorIdle /\ HostIdle /\ LogIdle /\ PcgIdle
  /\ \E p \in ShadowPoints, n \in Axes, l \in ShadowLights,
        objs \in ShadowScenes :
       call = [fn |-> "ray_color", point |-> p, normal |-> n, position |-> l,
               objects |-> objs, i |-> 0, shadow_factor |-> 0, rays |-> {},
               pc |-> "samples"]
  /\ ret = <<>>

\* one iteration of for (int i = 0; i < shadow_samples; ++i)
ShadowSample ==
  /\ call.pc = "samples"
  /\ call.i < shadow_samples
  /\ LET s == ShadowRay(call.position, call.point, call.normal, call.i)
     IN  call' = [call EXCEPT
                    !.i = @ + 1,
                    !.rays = @ \cup {s},
                    !.shadow_factor =
                      IF ~SceneHitAny(call.objects, s.ray, s.t_min, s.t_max)
                        THEN @ + 1 ELSE @]
  /\ UNCHANGED <<ret, driverVars, hitVars, colorVars, hostVars, logVars, pcgVars>>

\* shadow_factor /= shadow_samples, cos_theta and direct_lighting (for a
\* white surface and a light of intensity 1 at distance 1); the quotient
\* is kept as numerator and denominator
ShadowDone ==
  /\ call.pc = "samples"
  /\ call.i >= shadow_samples
  /\ LET light_dir == Normalized(VSub(call.position, call.point))
         cos_theta == Max(0, Dot(call.normal, light_dir))
     IN  ret' = [shadow_factor |-> [num |-> call.shadow_factor,
                                    den |-> shadow_samples],
                 direct_lighting |-> [num |-> cos_theta * call.shadow_factor,
                                      den |-> shadow_samples]]
  /\ call' = [call EXCEPT !.pc = "returned"]
  /\ UNCHANGED <<driverVars, hitVars, colorVars, hostVars, logVars, pcgVars>>

ShadowNext == ShadowSample \/ ShadowDone

SpecShadow == InitShadow /\ [][ShadowNext]_vars

\* ------------------------------------------------------------------------
\* Shape::hit called with the record of an earlier hit, as Scene::hit does
\* (scene.cpp): the upper end of the interval is then the earlier hit's t
\* ------------------------------------------------------------------------
EarlierHits ==
  {[point |-> <<0, 0, -3>>, normal |-> <<0, 0, 1>>, t |-> 3,
    front_face |-> TRUE, material |-> 7],
   [point |-> <<12, 0, 0>>, normal |-> <<1, 0, 0>>, t |-> 12,
    front_face |-> FALSE, material |-> 7]}

InitShapeHit ==
  /\ DriverIdle /\ HitIdle /\ ColorIdle /\ HostIdle /\ LogIdle /\ PcgIdle
  /\ \E obj \in Catalogue, r \in Rays, lo \in TMins :
       \/ \E hi \in TMaxs :
            call = [fn |-> "Shape::hit", self |-> obj, ray |-> r,
                    t_min |-> lo, t_max |-> hi, rec |-> NewHitRecord,
                    pc |-> "called"]
       \/ \E h \in EarlierHits :
            call = [fn |-> "Shape::hit", self |-> obj, ray |-> r,
                    t_min |-> lo, t_max |-> h.t, rec |-> h, pc |-> "called"]
  /\ ret = <<>>

\* obj.hit(ray, t_min, closest_so_far, rec)
ShapeHitCall ==
  /\ call.pc = "called"
  /\ ret' = ShapeHit(call.self, call.ray, call.t_min, call.t_max, call.rec)
  /\ call' = [call EXCEPT !.pc = "returned"]
  /\ UNCHANGED <<driverVars, hitVars, colorVars, hostVars, logVars, pcgVars>>

SpecShapeHit == InitShapeHit /\ [][ShapeHitCall]_vars

\* ------------------------------------------------------------------------
\* Vec3::random, Vec3::random_unit_vector and random_in_unit_sphere (vec3.cpp)
\*
\* A float in [0, 1] is kept to 12 binary places (Fixed12, in units of
\* 1/4096), which decides p.length_squared() >= 1.0f as the code does unless
\* the sum is within 2^-9 of 1.
\* ------------------------------------------------------------------------
Fixed12(f) == f[5] * 4096 + f[4] * 16 + (f[3] \div 16)

LocalRng_Static(g) == g

\* PCG32 rng; a local of the function, default-seeded at every call (g is
\* the generator the previous call left behind)
LocalRng(g) == PCG32(DEFAULT_SEED, DEFAULT_STREAM)

\* the orders in which a build may evaluate the three arguments of
\* Vec3(..., ..., ...): order[k] is the turn of the k-th argument
ArgumentOrders ==
  {<<1, 2, 3>>, <<1, 3, 2>>, <<2, 1, 3>>, <<2, 3, 1>>, <<3, 1, 2>>,
   <<3, 2, 1>>}

\* Vec3::random(min, max): the vector in units of 1/4096 and the generator
\* after the three next_float() calls
Vec3Random(g, min, max, order) ==
  LET a == NextFloat(g)
      b == NextFloat(a.rng)
      c == NextFloat(b.rng)
      draws == <<Fixed12(a.val), Fixed12(b.val), Fixed12(c.val)>>
  IN  [v |-> [k \in 1 .. 3 |-> draws[order[k]] * (max - min) + min * 4096],
       rng |-> c.rng]

\* Vec3::random_unit_vector(): the vector is a function of a and z (sqrt,
\* cos and sin have no state); a over 2 pi and (z + 1) / 2 are kept
RandomUnitVector(g) ==
  LET a == NextFloat(g)
      z == NextFloat(a.rng)
  IN  [v |-> <<Fixed12(a.val), Fixed12(z.val)>>, rng |-> z.rng]

\* p.length_squared() >= 1.0f
OutsideUnitSphere(p) == LengthSquared(p) >= 4096 * 4096

\* a default-seeded generator
InitialRng == PCG32(DEFAULT_SEED, DEFAULT_STREAM)

InitRandom ==
  /\ DriverIdle /\ HitIdle /\ ColorIdle /\ HostIdle /\ LogIdle /\ PcgIdle
  /\ \E order \in ArgumentOrders :
       \/ \E lo \in -2 .. 0, hi \in 1 .. 3 :
            call = [fn |-> "Vec3::random", min |-> lo, max |-> hi,
                    order |-> order, rng |-> InitialRng, results |-> <<>>,
                    pc |-> "calls"]
       \/ call = [fn |-> "Vec3::random_unit_vector", min |-> 0, max |-> 0,
                  order |-> order, rng |-> InitialRng, results |-> <<>>,
                  pc |-> "calls"]
       \/ call = [fn |-> "random_in_unit_sphere", min |-> -1, max |-> 1,
                  order |-> order, rng |-> InitialRng, results |-> <<>>,
                  pc |-> "loop"]
  /\ ret = <<>>

\* one more call of Vec3::random(min, max)
RandomCall ==
  /\ call.fn = "Vec3::random"
  /\ Len(call.results) < MaxCalls
  /\ LET res == Vec3Random(LocalRng(call.rng), call.min, call.max, call.order)
     IN  call' = [call EXCEPT !.results = Append(@, res.v), !.rng = res.rng]
  /\ UNCHANGED <<ret, driverVars, hitVars, colorVars, hostVars, logVars, pcgVars>>

\* one more call of Vec3::random_unit_vector()
RandomUnitVectorCall ==
  /\ call.fn = "Vec3::random_unit_vector"
  /\ Len(call.results) < MaxCalls
  /\ LET res == RandomUnitVector(LocalRng(call.rng))
     IN  call' = [call EXCEPT !.results = Append(@, res.v), !.rng = res.rng]
  /\ UNCHANGED <<ret, driverVars, hitVars, colorVars, hostVars, logVars, pcgVars>>

\* one iteration of the while (true) of random_in_unit_sphere: the candidate
\* p, then continue or return p
UnitSphereIteration ==
  /\ call.fn = "random_in_unit_sphere"
  /\ call.pc = "loop"
  /\ Len(call.results) < MaxCalls
  /\ LET res == Vec3Random(LocalRng(call.rng), call.min, call.max, call.order)
     IN  /\ call' = [call EXCEPT
                       !.results = Append(@, res.v),
                       !.rng = res.rng,
                       !.pc = IF OutsideUnitSphere(res.v) THEN "loop"
                              ELSE "returned"]
         /\ ret' = IF OutsideUnitSphere(res.v) THEN ret ELSE res.v
  /\ UNCHANGED <<driverVars, hitVars, colorVars, hostVars, logVars, pcgVars>>

RandomNext == RandomCall \/ RandomUnitVectorCall \/ UnitSphereIteration

SpecRandom == InitRandom /\ [][RandomNext]_vars

\* ------------------------------------------------------------------------
\* read_from_file (scene_loader.cpp): the loops over the lines of the file
\*
\* A line is kept as what the loader searches it for: the tag it opens or
\* closes.  "comment" is a comment opened and closed on one line, "text" a
\* line with none of the tags (a parameter of a block, or anything else).
\* ------------------------------------------------------------------------
MaxLines == 3

LineKinds ==
  {"scene", "blank", "comment", "comment_open", "comment_close", "camera",
   "camera_end", "emitter", "emitter_end", "shape", "shape_end", "bsdf",
   "bsdf_end", "scene_end", "text"}

SceneFiles == UNION {[1 .. n -> LineKinds] : n \in 0 .. MaxLines}

\* the closing tag the inner loop of a block waits for: "-->", "</camera>",
\* "</emitter>", "</shape>", "</bsdf>"; "none" for a line that opens no block
ClosingTag(line) ==
  IF line = "comment_open" THEN "comment_close"
  ELSE IF line = "camera" THEN "camera_end"
  ELSE IF line = "emitter" THEN "emitter_end"
  ELSE IF line = "shape" THEN "shape_end"
  ELSE IF line = "bsdf" THEN "bsdf_end"
  ELSE "none"

\* line.find(tag) != std::string::npos
Contains(line, tag) ==
  line = tag \/ (tag = "comment_close" /\ line = "comment")

\* the test of an inner loop, while (!(line.find(tag) != npos)): the state
\* of the stream is not looked at
InnerLoopStops(line, tag, failed) == Contains(line, tag)

InitLoad ==
  /\ DriverIdle /\ HitIdle /\ ColorIdle /\ HostIdle /\ LogIdle /\ PcgIdle
  /\ \E f \in SceneFiles :
       call = [fn |-> "read_from_file", file |-> f, pos |-> 0,
               line |-> "blank", failed |-> FALSE, reads |-> 0,
               waiting |-> "none", pc |-> "first"]
  /\ ret = <<>>

\* std::getline(file, line): the next line; at the end of the file the
\* stream fails and line is erased or left as it was (reads is a history
\* field: the parity of the number of reads that failed)
Getline(c, erased) ==
  IF c.pos < Len(c.file)
    THEN [c EXCEPT !.line = c.file[c.pos + 1], !.pos = @ + 1]
    ELSE [c EXCEPT !.line = IF erased THEN "blank" ELSE @, !.failed = TRUE,
                   !.reads = 1 - @]

\* std::getline(file, line); if (!(line == "<scene>")) return scene;
LoadFirstLine ==
  /\ call.pc = "first"
  /\ \E erased \in BOOLEAN :
       LET c == Getline(call, erased)
       IN  call' = [c EXCEPT !.pc = IF c.line = "scene" THEN "outer"
                                    ELSE "returned"]
  /\ UNCHANGED <<ret, driverVars, hitVars, colorVars, hostVars, logVars,
                 pcgVars>>

\* while (std::getline(file, line)): the loop ends when the read fails;
\* otherwise the line is skipped, opens a block, or is </scene>
LoadOuterLine ==
  /\ call.pc = "outer"
  /\ \E erased \in BOOLEAN :
       LET c == Getline(call, erased)
       IN  call' =
             IF c.failed \/ c.line = "scene_end"
               THEN [c EXCEPT !.pc = "returned"]
             ELSE IF ClosingTag(c.line) = "none" THEN c
             ELSE [c EXCEPT !.pc = "inner", !.waiting = ClosingTag(c.line)]
  /\ UNCHANGED <<ret, driverVars, hitVars, colorVars, hostVars, logVars,
                 pcgVars>>

\* one iteration of the inner loop of a block: std::getline(file, line)
LoadInnerLine ==
  /\ call.pc = "inner"
  /\ ~InnerLoopStops(call.line, call.waiting, call.failed)
  /\ \E erased \in BOOLEAN : call' = Getline(call, erased)
  /\ UNCHANGED <<ret, driverVars, hitVars, colorVars, hostVars, logVars,
                 pcgVars>>

\* the inner loop ends: the block is complete, back to the outer loop
LoadBlockDone ==
  /\ call.pc = "inner"
  /\ InnerLoopStops(call.line, call.waiting, call.failed)
  /\ call' = [call EXCEPT !.pc = "outer", !.waiting = "none"]
  /\ UNCHANGED <<ret, driverVars, hitVars, colorVars, hostVars, logVars,
                 pcgVars>>

LoadNext == LoadFirstLine \/ LoadOuterLine \/ LoadInnerLine \/ LoadBlockDone

SpecLoad == InitLoad /\ [][LoadNext]_vars

\* read_from_file is not suspended for ever
SpecLoadFair == SpecLoad /\ WF_vars(LoadNext)

\* ------------------------------------------------------------------------
\* Properties of the render driver
\* ------------------------------------------------------------------------
AllExited == \A t \in Workers : wpc[t] = "exit"

\* C1: no store falls outside [0, width * height), no pixel index is stored
\* more than once or by more than one worker, no row is processed by two
\* workers, and once the workers (at least one) have all exited every pixel
\* index has been stored exactly once.
C1_EachPixelOnce ==
  /\ oob = FALSE
  /\ \A k \in DOMAIN writes : writes[k] <= 1 /\ Cardinality(writer[k]) <= 1
  /\ \A j \in DOMAIN rowOwners : Cardinality(rowOwners[j]) <= 1
  /\ (num_threads >= 1 /\ AllExited)
       => \A k \in DOMAIN writes : writes[k] = 1 /\ pixels[k] # Unset

C1_Witness ==
  /\ mainpc = "done"
  /\ num_threads = 2
  /\ image_height = 2
  /\ rowOwners[0] # rowOwners[1]
  /\ \A k \in DOMAIN writes : writes[k] = 1

\* C2: no generator is advanced by more than one thread; each thread_rng is
\* a local of its worker, so the claim is about the master generator rng.
C2_OneThreadPerGenerator == Cardinality(rngUsers) <= 1

\* C3: when the second of two renders with the same arguments is done, every
\* pixel was produced from the same jitter values as in the first render.
C3_Reproducible ==
  (run = 2 /\ mainpc = "done")
    => \A k \in DOMAIN pixels :
         \/ pixels[k] = first[k]
         \/ /\ pixels[k] # Unset
            /\ first[k] # Unset
            /\ Jitters(pixels[k]) = Jitters(first[k])

Serializing == mainpc \in {"write", "done"}

\* C4: while write_ppm runs (and after it) every worker has terminated, and
\* from the moment main calls write_ppm the pixel buffer is never stored to.
C4_JoinBeforeWrite ==
  /\ [](Serializing => AllExited)
  /\ [][Serializing => (pixels' = pixels /\ writes' = writes)]_vars

C4_Witness ==
  /\ mainpc = "write"
  /\ ppm_pos >= 1
  /\ num_threads = 2
  /\ image_height = 2
  /\ \A k \in DOMAIN writes : writes[k] = 1

\* C5: a claim of a worker is an index outside [0, image_height) exactly
\* when it is the worker's last claim and the worker has exited; and under
\* fair scheduling the render completes with every worker exited.
C5_ClaimUntilInvalid ==
  /\ [](\A t \in Workers : \A n \in 1 .. Len(claims[t]) :
          (claims[t][n] \notin 0 .. (image_height - 1))
            <=> (n = Len(claims[t]) /\ wpc[t] = "exit"))
  /\ <>(mainpc = "done" /\ AllExited)

C5_Witness ==
  /\ mainpc = "done"
  /\ num_threads = 2
  /\ image_height = 2
  /\ \A t \in Workers : wpc[t] = "exit" /\ Len(claims[t]) = 2

\* the claims of worker t that found no row left
FailingClaims(t) ==
  {n \in 1 .. Len(claims[t]) : claims[t][n] >= image_height}

\* C27: the row cursor never decreases; a worker makes at most one failing
\* claim and exactly one once it has exited; the rows a worker claims are
\* strictly increasing; and when every worker has been launched and has
\* exited the cursor is image_height + num_threads.
C27_RowCursor ==
  /\ [][next_row' >= next_row]_vars
  /\ [](\A t \in Workers :
          /\ Cardinality(FailingClaims(t)) <= 1
          /\ wpc[t] = "exit" => Cardinality(FailingClaims(t)) = 1
          /\ \A n \in 1 .. (Len(claims[t]) - 1) :
                claims[t][n] < claims[t][n + 1])
  /\ []((mainpc # "launch" /\ AllExited)
          => next_row = image_height + num_threads)

\* with at least one worker the statement holds
C27_RowCursorWithWorkers ==
  /\ [][next_row' >= next_row]_vars
  /\ [](\A t \in Workers :
          /\ Cardinality(FailingClaims(t)) <= 1
          /\ wpc[t] = "exit" => Cardinality(FailingClaims(t)) = 1
          /\ \A n \in 1 .. (Len(claims[t]) - 1) :
                claims[t][n] < claims[t][n + 1])
  /\ []((mainpc # "launch" /\ AllExited /\ num_threads >= 1)
          => next_row = image_height + num_threads)

\* ------------------------------------------------------------------------
\* Properties of Scene::hit
\* ------------------------------------------------------------------------
\* The intersections of a ray with a shape, by the geometry alone: the ray
\* parameters t in lo..hi whose point r.origin + t * r.direction lies on the
\* shape.  A triangle of the catalogue has area 1/2, so its lattice points
\* are its three vertices; a ray parallel to its plane does not cross it.
OnSphere(sp, p) ==
  LengthSquared(VSub(p, sp.center)) = sp.radius * sp.radius

OnTriangle(tr, r, p) ==
  /\ Dot(r.direction, Cross(VSub(tr.v1, tr.v0), VSub(tr.v2, tr.v0))) # 0
  /\ p \in {tr.v0, tr.v1, tr.v2}

OnShape(obj, r, p) ==
  IF obj.kind = "sphere" THEN OnSphere(obj, p)
  ELSE IF obj.kind = "triangle" THEN OnTriangle(obj, r, p)
  ELSE \E k \in DOMAIN obj.triangles : OnTriangle(obj.triangles[k], r, p)

Crossings(obj, r, lo, hi) == {t \in lo .. hi : OnShape(obj, r, RayAt(r, t))}

\* the crossings in [t_min, t_max] of the first k objects of the scene
SceneCrossings(k) ==
  UNION {Crossings(objects[i], ray, t_min, t_max) : i \in 1 .. k}

Least(S) == CHOOSE x \in S : \A y \in S : x <= y

\* the crossings in [tmin, tmax] of the first k triangles of a mesh
MeshCrossings(m, r, tmin, tmax, k) ==
  UNION {Crossings(m.triangles[i], r, tmin, tmax) : i \in 1 .. k}

ScanState ==
  /\ hit_anything <=> SceneCrossings(hidx) # {}
  /\ closest_so_far = IF SceneCrossings(hidx) = {} THEN t_max
                      ELSE Least(SceneCrossings(hidx))
  /\ hit_anything => rec.t = closest_so_far

MeshScanState(m) ==
  \A k \in 0 .. Len(m.triangles) :
    LET st == MeshScan(m, ray, t_min, t_max, NewHitRecord, k)
        cr == MeshCrossings(m, ray, t_min, t_max, k)
    IN  /\ st.hit <=> cr # {}
        /\ st.closest_so_far = IF cr = {} THEN t_max ELSE Least(cr)
        /\ st.hit => st.rec.t = st.closest_so_far

ClosestObjects ==
  {i \in DOMAIN objects :
     Least(SceneCrossings(Len(objects)))
       \in Crossings(objects[i], ray, t_min, t_max)}

Greatest(S) == CHOOSE x \in S : \A y \in S : x >= y

\* C9: when Scene::hit returns true, the material of the record is the
\* material of an object crossed at the returned t, namely of the object
\* whose hit the record holds, and it is not the null material.
C9_MaterialOfClosest ==
  (hpc = "returned" /\ hit_anything) =>
    /\ rec.material # NullMaterial
    /\ rec.t = Least(SceneCrossings(Len(objects)))
    /\ winner \in ClosestObjects
    /\ rec.material = objects[winner].material
    /\ rec.material = objects[Greatest(ClosestObjects)].material

C9_Witness ==
  /\ hpc = "returned"
  /\ hit_anything
  /\ Len(objects) = 3
  /\ objects[1].kind = "sphere"
  /\ winner = 1
  /\ rec.material = objects[1].material
  /\ SceneCrossings(3) # Crossings(objects[1], ray, t_min, t_max)

\* C10 as claimed: of the objects crossed at the same least t, the record
\* returned is the hit of the one that comes first in the list.
C10_FirstInListWins ==
  (hpc = "returned" /\ hit_anything) => winner = Least(ClosestObjects)

\* C10 as the code has it: the record returned is the hit of the one that
\* comes last in the list.
C10_LastInListWins ==
  (hpc = "returned" /\ hit_anything) => winner = Greatest(ClosestObjects)

C10_Witness ==
  /\ hpc = "returned"
  /\ hit_anything
  /\ Cardinality(ClosestObjects) >= 2
  /\ \E i \in ClosestObjects : \E j \in ClosestObjects :
       objects[i].kind = "sphere" /\ objects[j].kind = "triangle"
  /\ winner = Greatest(ClosestObjects)

\* ------------------------------------------------------------------------
\* Properties of ray_color
\* ------------------------------------------------------------------------
\* C6: an invocation with depth <= 0 returns black and has issued no
\* Scene::hit query, whatever the scene.
C6_BlackAtDepthZero ==
  /\ \A k \in DOMAIN stack : stack[k].depth <= 0 => stack[k].queries = 0
  /\ (lastRet # <<>> /\ lastRet.depth <= 0)
       => (lastRet.value = 0 /\ lastRet.queries = 0)
  /\ (cpc = "returned" /\ depth0 <= 0) => retval = 0

C6_Witness ==
  /\ cpc = "running"
  /\ depth0 = 2
  /\ Len(stack) = 2
  /\ Top.phase = "blend"
  /\ stack[1].final_color > 0
  /\ lastRet # <<>>
  /\ lastRet.depth = 0
  /\ lastRet.value = 0

\* C7: for an outermost depth d >= 0 the chain of nested invocations never
\* exceeds d + 1, every invocation makes at most one recursive call and
\* makes it with its own depth minus one, an invocation that finds the
\* budget exhausted returns black, and the outermost call returns.
C7_BoundedRecursion ==
  /\ [](depth0 >= 0 =>
          /\ Len(stack) <= depth0 + 1
          /\ calls <= depth0 + 1
          /\ \A k \in DOMAIN stack :
               /\ stack[k].recursed <= 1
               /\ k > 1 => stack[k].depth = stack[k - 1].depth - 1
          /\ (lastRet # <<>> /\ lastRet.depth <= 0) => lastRet.value = 0)
  /\ <>(cpc = "returned")

C7_Witness ==
  /\ depth0 = 3
  /\ Len(stack) = 4
  /\ Top.depth = 0
  /\ \A k \in 1 .. 3 : stack[k].material.reflectivity = 1

\* ------------------------------------------------------------------------
\* Properties of Sphere::hit
\* ------------------------------------------------------------------------
TRange == 40

\* the parameters at which the ray of the call lies on the sphere
SphereRoots ==
  {t \in (0 - TRange) .. TRange :
     OnSphere(call.self, RayAt(call.ray, t))}

SphereRootsInRange == {t \in SphereRoots : call.t_min <= t /\ t <= call.t_max}

\* C11: a returned Sphere::hit reports a hit exactly when a root lies in
\* [t_min, t_max]; the reported t is then the smaller root if that one is in
\* range and the larger one otherwise, it is a number and it satisfies
\* t_min <= t <= t_max.
C11_SphereRootChoice ==
  call.pc = "returned" =>
    /\ ret.hit <=> SphereRootsInRange # {}
    /\ ret.hit =>
         /\ ret.rec.t # NaN
         /\ call.t_min <= ret.rec.t /\ ret.rec.t <= call.t_max
         /\ ret.rec.t = Least(SphereRootsInRange)

\* the same for rays whose direction is not the zero vector
C11_NonZeroDirection ==
  (call.pc = "returned" /\ call.ray.direction # <<0, 0, 0>>) =>
    /\ ret.hit <=> SphereRootsInRange # {}
    /\ ret.hit =>
         /\ ret.rec.t # NaN
         /\ call.t_min <= ret.rec.t /\ ret.rec.t <= call.t_max
         /\ ret.rec.t = Least(SphereRootsInRange)

\* the origin of the call's ray is outside the sphere, its direction is a
\* unit vector pointing at the center, and the near surface point is in
\* [t_min, t_max]
AimedAtCenter ==
  /\ call.pc = "returned"
  /\ LengthSquared(call.ray.direction) = 1
  /\ \E k \in 1 .. TRange :
       /\ call.self.center = RayAt(call.ray, k)
       /\ k > call.self.radius
       /\ call.t_min <= k - call.self.radius
       /\ k - call.self.radius <= call.t_max

\* distance from the ray origin to the sphere surface
DistanceToSurface ==
  Sqrt(LengthSquared(VSub(call.self.center, call.ray.origin)))
    - call.self.radius

\* v and w lie on one line through the origin
Collinear(v, w) == Cross(v, w) = <<0, 0, 0>>

\* C12 as stated: such a hit has t = distance to the surface, a normal
\* parallel to the ray direction, and is reported as a back-face hit.
C12_BackFaceFromOutside ==
  AimedAtCenter =>
    /\ ret.hit
    /\ ret.rec.t = DistanceToSurface
    /\ Collinear(ret.rec.normal, call.ray.direction)
    /\ ret.rec.front_face = FALSE

\* C12 amended: such a hit has t = distance to the surface, its normal is
\* the opposite of the ray direction, and it is reported as a front-face
\* hit.
C12_FrontFaceFromOutside ==
  AimedAtCenter =>
    /\ ret.hit
    /\ ret.rec.t = DistanceToSurface
    /\ ret.rec.normal = VScale(-1, call.ray.direction)
    /\ ret.rec.front_face = TRUE

C12_Witness ==
  /\ AimedAtCenter
  /\ call.ray.origin = <<0, 0, -5>>
  /\ call.self.center = <<0, -9, -5>>
  /\ ret.hit
  /\ ret.rec.t = 5

BaryRange == 4

\* the point v0 + u * edge1 + v * edge2 of the plane of a triangle
PlanePoint(tr, u, v) ==
  VAdd(tr.v0, VAdd(VScale(u, VSub(tr.v1, tr.v0)),
                   VScale(v, VSub(tr.v2, tr.v0))))

\* the ray of the call crosses the plane of the triangle, in one point, with
\* barycentric coordinates u, v
CrossesPlaneAt(u, v) ==
  /\ Dot(call.ray.direction,
         Cross(VSub(call.self.v1, call.self.v0),
               VSub(call.self.v2, call.self.v0))) # 0
  /\ \E t \in (0 - TRange) .. TRange :
       RayAt(call.ray, t) = PlanePoint(call.self, u, v)

\* C14: a hit reported by Triangle::hit lies at u >= 0, v >= 0, u + v <= 1
\* of the triangle and at a t in [t_min, t_max] of the ray; a ray that
\* crosses the plane at a u outside [0, 1] is rejected.
C14_HitInsideTriangle ==
  call.pc = "returned" =>
    /\ ret.hit =>
         /\ call.t_min <= ret.rec.t /\ ret.rec.t <= call.t_max
         /\ ret.rec.point = RayAt(call.ray, ret.rec.t)
         /\ \E u \in 0 .. 1, v \in 0 .. 1 :
              /\ u + v <= 1
              /\ ret.rec.point = PlanePoint(call.self, u, v)
    /\ (\E u \in ((0 - BaryRange) .. BaryRange) \ {0, 1},
           v \in (0 - BaryRange) .. BaryRange : CrossesPlaneAt(u, v))
         => ~ret.hit

C14_Witness ==
  /\ call.pc = "returned"
  /\ ret.hit
  /\ call.ray.direction = <<1, 0, -1>>
  /\ CrossesPlaneAt(1, 0)
  /\ ret.rec.t = 1

\* ------------------------------------------------------------------------
\* Properties of reflect
\* ------------------------------------------------------------------------
\* C15 as stated: reflect(reflect(v, n), n) = v for every v and every n.
C15_ReflectInvolution ==
  call.pc = "returned" => ret.twice = call.v

\* C15 amended: reflect(reflect(v, n), n) = v + 4 (v.n) (n.n - 1) n, which
\* is v for every v when n has length 1.
C15_ReflectInvolutionUnit ==
  call.pc = "returned" =>
    /\ ret.twice =
         VAdd(call.v,
              VScale(4 * Dot(call.v, call.n) * (LengthSquared(call.n) - 1),
                     call.n))
    /\ LengthSquared(call.n) = 1 => ret.twice = call.v

C15_Witness ==
  /\ call.pc = "returned"
  /\ call.n = <<0, 0, -1>>
  /\ call.v = <<1, -1, 1>>
  /\ ret.once = <<1, -1, -1>>
  /\ ret.twice = call.v

\* ------------------------------------------------------------------------
\* Properties of Vec3::normalized
\* ------------------------------------------------------------------------
Finite(v) == \A i \in 1 .. 3 : v[i] # NaN

\* C16: normalized of the zero vector is the zero vector, and no vector a
\* caller of normalized obtains has a NaN component: a light direction for a
\* point at the light's position and a camera basis for look_from = look_at
\* or for vup parallel to the view direction are zero vectors.
C16_NormalizedZero ==
  call.pc = "returned" =>
    /\ \A k \in 1 .. Len(ret) : Finite(ret[k])
    /\ (call.fn = "Vec3::normalized" /\ call.v = <<0, 0, 0>>)
         => ret[1] = <<0, 0, 0>>
    /\ (call.fn = "Light::sample_direction" /\ call.position = call.point)
         => ret[1] = <<0, 0, 0>>
    /\ (call.fn = "Camera::Camera" /\ call.look_from = call.look_at)
         => (ret[1] = <<0, 0, 0>> /\ ret[2] = <<0, 0, 0>>)
    /\ (call.fn = "Camera::Camera"
          /\ Cross(call.vup, VSub(call.look_from, call.look_at)) = <<0, 0, 0>>)
         => ret[2] = <<0, 0, 0>>

C16_Witness ==
  /\ call.pc = "returned"
  /\ call.fn = "Camera::Camera"
  /\ call.look_from = <<0, 0, 2>>
  /\ call.look_at = <<0, 0, -1>>
  /\ call.vup = <<0, 0, 1>>
  /\ ret = <<<<0, 0, 1>>, <<0, 0, 0>>>>

Lcg(s, c) == Add64(Mul64(s, PCG_MULT), c)

\* C24: the increment of a constructed generator is odd and is derived from
\* the stream alone; no call changes it; every next() (and next_float())
\* replaces the state by (state * 6364136223846793005 + inc) mod 2^64; and
\* the state after construction is two such advances from 0 with the seed
\* added between them.
C24_OddIncrementLcg ==
  /\ [](\A i \in Instances :
          gen[i].live =>
            /\ gen[i].inc[1] % 2 = 1
            /\ gen[i].inc = StreamInc(stream)
            /\ Len(outs[i]) = 0 =>
                  gen[i].state
                    = Lcg(Add64(Lcg(Zero64, gen[i].inc), seed), gen[i].inc))
  /\ [][\A i \in Instances :
          gen[i].live =>
            /\ gen'[i].inc = gen[i].inc
            /\ Len(outs'[i]) = Len(outs[i]) + 1 =>
                  gen'[i].state = Lcg(gen[i].state, gen[i].inc)
            /\ Len(outs'[i]) = Len(outs[i]) => gen'[i].state = gen[i].state]_vars

\* both generators were constructed on the stream 2^64 - 1, whose top bit
\* the shift drops, and one of them has been advanced MaxCalls times
C24_Witness ==
  /\ stream = Ones64
  /\ seed = Ones64
  /\ \A i \in Instances : gen[i].live /\ gen[i].inc = Ones64
  /\ Len(outs[1]) = MaxCalls
  /\ Len(outs[2]) = 0

\* 2^32 as the 5 bytes of a converted value
TwoTo32 == <<0, 0, 0, 0, 1>>

\* C18: every value next_float() returns is below 1: the converted 32-bit
\* value, the numerator over 2^32, is below 2^32.
C18_NextFloatBelowOne == fl # <<>> => fl[5] = 0

\* ------------------------------------------------------------------------
\* Properties of the thread count
\* ------------------------------------------------------------------------
\* C19: once the launch loop has ended, the number of worker threads
\* launched is the count given as command-line argument 3, or the host's
\* core count when the command line gives none.
C19_ThreadCountAsSupplied ==
  mainpc # "launch" =>
    launched = IF Len(argv) >= 3 THEN argv[3] ELSE hardware_concurrency

\* without argument 3 the host's core count is used
C19_DefaultCoreCount ==
  (mainpc # "launch" /\ Len(argv) < 3) => launched = hardware_concurrency

\* ------------------------------------------------------------------------
\* Properties of Triangle::scale and PlyMesh::scale
\* ------------------------------------------------------------------------
Scaled == call # <<>> /\ call.pc = "returned"

\* C20: after scale(factor) every vertex (x, y, z) of every triangle is
\* (x * factor.x, y * factor.y, z * factor.z).
C20_ScaleComponentWise ==
  Scaled =>
    \A k \in 1 .. Len(ret) :
      /\ ret[k].v0 = VMul(call.self[k].v0, call.factor)
      /\ ret[k].v1 = VMul(call.self[k].v1, call.factor)
      /\ ret[k].v2 = VMul(call.self[k].v2, call.factor)

\* a uniform factor (k, k, k) scales all three vertices by k
C20_UniformScale ==
  (Scaled /\ call.factor[1] = call.factor[2]
          /\ call.factor[2] = call.factor[3]) =>
    \A k \in 1 .. Len(ret) :
      /\ ret[k].v0 = VScale(call.factor[1], call.self[k].v0)
      /\ ret[k].v1 = VScale(call.factor[1], call.self[k].v1)
      /\ ret[k].v2 = VScale(call.factor[1], call.self[k].v2)

\* ------------------------------------------------------------------------
\* Properties of the image-plane coordinates
\* ------------------------------------------------------------------------
\* c.num / 2^32 / c.den is inside [0, 1]: the numerator is at most
\* c.den * 2^32 (a correctly rounded division keeps a quotient above 1
\* above 1: the next float after n - 1 divided by n - 1 rounds to the next
\* float after 1)
InUnitInterval(c) ==
  \/ c.num[5] < c.den
  \/ c.num[5] = c.den /\ c.num[1] = 0 /\ c.num[2] = 0 /\ c.num[3] = 0
       /\ c.num[4] = 0

\* C21: for every pixel (i, j) of an image at least 2 wide and 2 high the
\* coordinates u and v handed to camera.get_ray are inside [0, 1].
C21_CoordinatesInUnitInterval ==
  (call # <<>> /\ call.fn = "render_worker" /\ call.pc = "returned") =>
    InUnitInterval(ret.u) /\ InUnitInterval(ret.v)

\* every column but the last and every row but the last stays inside [0, 1]
C21_InnerPixels ==
  (call # <<>> /\ call.fn = "render_worker" /\ call.pc = "returned") =>
    /\ call.i < call.image_width - 1 => InUnitInterval(ret.u)
    /\ call.j < call.image_height - 1 => InUnitInterval(ret.v)

\* ------------------------------------------------------------------------
\* Properties of the Logger
\* ------------------------------------------------------------------------
\* C22: every read or write of min_level, log_to_console, use_colors,
\* log_to_file and log_file happens while the mutex is held by the thread
\* that makes it.
C22_FieldsGuarded == unguarded = {}

\* the accesses of log_to_file and log_file are all made with the mutex held
C22_FileFieldsGuarded == unguarded \cap {"log_to_file", "log_file"} = {}

\* C25: whatever the interleaving of the get_instance() calls, exactly one
\* Logger is constructed and every call returns the pointer to it.
C25_OneInstance ==
  /\ constructed <= 1
  /\ returned \subseteq {1}
  /\ returned # {} => instance = 1

\* a thread that found no instance waits for the mutex after another thread
\* has constructed the Logger and returned it
C25_Witness ==
  /\ \E t \in LogThreads : lpc[t] = "gi_lock"
  /\ \E t \in LogThreads : local[t].ptr = 1
  /\ constructed = 1
  /\ returned = {1}

C26_Witness ==
  /\ call # <<>> /\ call.fn = "ray_color" /\ call.pc = "returned"
  /\ call.rays # {}
  /\ call.objects # <<>>
  /\ ret.shadow_factor.num = shadow_samples
  /\ ret.direct_lighting.num > 0

C28_MissLeavesRecord ==
  (call # <<>> /\ call.fn = "Shape::hit" /\ call.pc = "returned"
     /\ ~ret.hit) => ret.rec = call.rec

\* a shape that lies behind an earlier hit misses, and the earlier hit's
\* record is still there
C28_Witness ==
  /\ call # <<>> /\ call.fn = "Shape::hit" /\ call.pc = "returned"
  /\ call.rec.material = 7
  /\ call.self.kind = "mesh"
  /\ ~ret.hit
  /\ ShapeHit(call.self, call.ray, call.t_min, 20, NewHitRecord).hit
  /\ ret.rec.material = 7

\* ------------------------------------------------------------------------
\* Properties of the random vectors
\* ------------------------------------------------------------------------
RandomFunctions ==
  {"Vec3::random", "Vec3::random_unit_vector", "random_in_unit_sphere"}

Loading == call # <<>> /\ call.fn = "read_from_file"

\* C30: read_from_file returns, whatever the file holds.
C30_LoadTerminates == <>(Loading /\ call.pc = "returned")

\* the end of the file was reached inside a block
EndOfFileInBlock ==
  Loading /\ call.pc = "inner" /\ call.failed
    /\ ~Contains(call.line, call.waiting)

\* read_from_file returns unless the file ends inside a block
C30_LoadTerminatesOrBlockOpen ==
  <>((Loading /\ call.pc = "returned") \/ EndOfFileInBlock)

\* once the end of the file is reached inside a block the loop never ends
C30_BlockOpenForEver == [](EndOfFileInBlock => []EndOfFileInBlock)
====
